---- MODULE Spec2Model ----
(***************************************************************************)
(* Model of candles-shared: the resolution policy (CandleType), the OHLC   *)
(* aggregate (CandlePrice), the resolution cache (CandlePricesCache), the  *)
(* per-instrument and bid/ask caches (CandleTypesCache, CandleBidAsksCache)*)
(* under concurrent tasks, the flat cache (CandlesCache) and the cursor    *)
(* pager (CandlePager).                                                    *)
(*                                                                         *)
(* Instants (DateTime<Utc>) are whole epoch seconds.  Prices (f64) are     *)
(* small integers, zero and negatives included.  Option<T> is a sequence   *)
(* of length at most one.  Strings are TLA+ strings.                       *)
(***************************************************************************)
EXTENDS Integers, Sequences, FiniteSets, TLC

None == <<>>
Some(v) == <<v>>

(***************************************************************************)
(* Bounds of the model.                                                    *)
(***************************************************************************)
MaxSpan == 3
MaxLimit == 3
MaxCalls == 4
MaxPrice == 2
MaxUpdates == 3
MaxTicks == 2
MaxFlatCalls == 4
MaxSideCalls == 2

(***************************************************************************)
(* An operator that uses an argument more than once first binds it as a    *)
(* value, the one element of {argument}, so that it is evaluated once:     *)
(*     Op(a) == CHOOSE r \in { body(x) : x \in {a} } : TRUE                *)
(***************************************************************************)

(***************************************************************************)
(* Integer arithmetic of the build: i64 `/` and `%` truncate toward zero.  *)
(***************************************************************************)
Abs(x) == IF x >= 0 THEN x ELSE 0 - x

RustDiv(a, b) ==
    CHOOSE q \in
      { IF (x >= 0) = (y > 0)
        THEN Abs(x) \div Abs(y)
        ELSE 0 - (Abs(x) \div Abs(y)) : x \in {a}, y \in {b} } : TRUE

RustRem(a, b) ==
    CHOOSE r \in { x - y * RustDiv(x, y) : x \in {a}, y \in {b} } : TRUE

\* `count as usize`: a negative i64 wraps to a value near the top of usize.
\* The model wraps at the top of its own integers; both exceed every limit.
UsizeTop == 2147483647

AsUsize(n) == CHOOSE r \in { IF x >= 0 THEN x ELSE UsizeTop + x + 1 : x \in {n} } : TRUE

(***************************************************************************)
(* Calendar arithmetic of chrono (proleptic Gregorian, UTC).               *)
(***************************************************************************)
\* Utc.with_ymd_and_hms(y, m, d, 0, 0, 0).timestamp()
with_ymd(year, month, day) ==
    CHOOSE ts \in
      { LET yy  == IF m <= 2 THEN y - 1 ELSE y
            era == yy \div 400
            yoe == yy - era * 400
            mp  == IF m > 2 THEN m - 3 ELSE m + 9
            doy == (153 * mp + 2) \div 5 + d - 1
            doe == yoe * 365 + yoe \div 4 - yoe \div 100 + doy
        IN  (era * 146097 + doe - 719468) * 86400 :
        y \in {year}, m \in {month}, d \in {day} } : TRUE

\* <<date.year(), date.month()>> of the instant with this epoch second
year_month(timestamp) ==
    CHOOSE ym \in
      { LET z   == ts \div 86400 + 719468
            era == z \div 146097
            doe == z - era * 146097
            yoe == (doe - doe \div 1460 + doe \div 36524 - doe \div 146096) \div 365
            doy == doe - (365 * yoe + yoe \div 4 - yoe \div 100)
            mp  == (5 * doy + 2) \div 153
            m   == IF mp < 10 THEN mp + 3 ELSE mp - 9
            y   == yoe + era * 400 + (IF m <= 2 THEN 1 ELSE 0)
        IN  <<y, m>> : ts \in {timestamp} } : TRUE

(***************************************************************************)
(* CandleType                                                              *)
(***************************************************************************)
Minute == 0
Hour == 1
Day == 2
Month == 3

CandleTypes == {Minute, Hour, Day, Month}

\* get_start_date giving the end of a fixed bucket in place of its start
get_start_date_end(candle_type, datetime) ==
    CHOOSE start \in
      { CASE ct = Minute -> timestamp_sec - RustRem(timestamp_sec, 60) + 60
          [] ct = Hour   -> timestamp_sec - RustRem(timestamp_sec, 3600) + 3600
          [] ct = Day    -> timestamp_sec - RustRem(timestamp_sec, 86400) + 86400
          [] ct = Month  ->
                CHOOSE start_of_month \in
                  { with_ymd(date[1], date[2], 1) :
                      date \in {year_month(timestamp_sec)} } : TRUE :
        ct \in {candle_type}, timestamp_sec \in {datetime} } : TRUE

get_start_date(candle_type, datetime) ==
    CHOOSE start \in
      { CASE ct = Minute -> timestamp_sec - RustRem(timestamp_sec, 60)
          [] ct = Hour   -> timestamp_sec - RustRem(timestamp_sec, 3600)
          [] ct = Day    -> timestamp_sec - RustRem(timestamp_sec, 86400)
          [] ct = Month  ->
                CHOOSE start_of_month \in
                  { with_ymd(date[1], date[2], 1) :
                      date \in {year_month(timestamp_sec)} } : TRUE :
        ct \in {candle_type}, timestamp_sec \in {datetime} } : TRUE

get_duration(candle_type, datetime) ==
    CHOOSE duration \in
      { CASE ct = Minute -> 60
          [] ct = Hour   -> 3600
          [] ct = Day    -> 86400
          [] ct = Month  ->
                LET start_of_month == with_ymd(date[1], date[2], 1)
                    next_month     == IF date[2] = 12 THEN 1 ELSE date[2] + 1
                    end_of_month   == with_ymd(date[1], next_month, 1)
                IN  end_of_month - start_of_month :
        ct \in {candle_type}, date \in {year_month(datetime)} } : TRUE

get_end_date(candle_type, datetime) ==
    CHOOSE end \in
      { start + get_duration(ct, start) :
          ct \in {candle_type}, start \in {get_start_date(candle_type, datetime)} } : TRUE

get_dates_count(candle_type, datetime_from, datetime_to) ==
    CHOOSE count \in
      { AsUsize(RustDiv(to - from, duration)) :
          duration \in {get_duration(candle_type, datetime_from)},
          from     \in {get_start_date(candle_type, datetime_from)},
          to       \in {get_start_date(candle_type, datetime_to)} } : TRUE

(***************************************************************************)
(* BidAskCandle::generate_id                                               *)
(***************************************************************************)
generate_id(instrument, candle_type, datetime) ==
    CHOOSE id \in
      { ToString(ct) \o instrument \o ToString(get_start_date(ct, datetime)) :
          ct \in {candle_type} } : TRUE

(***************************************************************************)
(* The continuation token: the millisecond epoch of an instant in decimal. *)
(***************************************************************************)
\* from_date.timestamp_millis().to_string()
timestamp_millis_string(datetime) ==
    CHOOSE s \in
      { IF secs = 0 THEN "0" ELSE ToString(secs) \o "000" : secs \in {datetime} } : TRUE

\* the value of one decimal digit, -1 for any other character
digit(char) ==
    CHOOSE d \in
      { CASE c = "0" -> 0 [] c = "1" -> 1 [] c = "2" -> 2 [] c = "3" -> 3
          [] c = "4" -> 4 [] c = "5" -> 5 [] c = "6" -> 6 [] c = "7" -> 7
          [] c = "8" -> 8 [] c = "9" -> 9 [] OTHER -> 0 - 1 : c \in {char} } : TRUE

\* the value of a string of digits, -1 when a character is not a digit
RECURSIVE parse_digits(_)
parse_digits(str) ==
    CHOOSE v \in
      { IF s = "" THEN 0
        ELSE LET front == parse_digits(SubSeq(s, 1, Len(s) - 1))
                 d     == digit(SubSeq(s, Len(s), Len(s)))
             IN  CHOOSE r \in
                   { IF f < 0 \/ l < 0 THEN 0 - 1 ELSE f * 10 + l :
                       f \in {front}, l \in {d} } : TRUE :
        s \in {str} } : TRUE

\* Utc.timestamp_millis_opt(page_id.parse::<i64>()): None when the string is
\* not a decimal integer, else the epoch second the millisecond lies in.
parse_millis(page_id) ==
    CHOOSE parsed \in
      { LET neg    == Len(s) >= 1 /\ SubSeq(s, 1, 1) = "-"
            signed == neg \/ (Len(s) >= 1 /\ SubSeq(s, 1, 1) = "+")
            body   == IF signed THEN SubSeq(s, 2, Len(s)) ELSE s
        IN  CHOOSE r \in
              { IF n = 0 \/ p.secs < 0 \/ p.millis < 0 THEN None
                ELSE IF ~neg THEN Some(p.secs)
                ELSE IF p.millis = 0 THEN Some(0 - p.secs)
                ELSE Some(0 - p.secs - 1) :
                  n \in {Len(body)},
                  p \in {[secs   |-> IF Len(body) > 3
                                     THEN parse_digits(SubSeq(body, 1, Len(body) - 3))
                                     ELSE 0,
                          millis |-> IF Len(body) > 3
                                     THEN parse_digits(SubSeq(body, Len(body) - 2, Len(body)))
                                     ELSE parse_digits(body)]} } : TRUE :
        s \in {page_id} } : TRUE

(***************************************************************************)
(* CandlePager                                                             *)
(***************************************************************************)
\* the range check of CandlePager::new refusing an empty range as well
CandlePager_new_panics_ge(from_date, to_date) == from_date >= to_date

\* the range check of CandlePager::new
CandlePager_new_panics(from_date, to_date) == from_date > to_date

CandlePager_new(instrument, candle_type, from_date, to_date, page_id, limit) ==
    [instrument   |-> instrument,
     candle_type  |-> candle_type,
     from_date    |-> from_date,
     to_date      |-> to_date,
     page_id      |-> page_id,
     limit        |-> limit,
     last_item_no |-> 0]

get_next_page_id(pager_) ==
    CHOOSE next_page_id \in
      { IF self.limit > total_items_count
        THEN None
        ELSE LET remaining_item_count == self.limit - self.last_item_no
                 total_duration       == candle_duration * remaining_item_count
                 from_date == self.from_date + total_duration + candle_duration
             IN  Some(timestamp_millis_string(from_date)) :
          self \in {pager_},
          total_items_count \in
              {get_dates_count(pager_.candle_type, pager_.from_date, pager_.to_date)},
          candle_duration \in {get_duration(pager_.candle_type, pager_.from_date)} } : TRUE

\* [self |-> the pager afterwards, ret |-> the token returned]
move_page_id(pager_) ==
    CHOOSE r \in
      { IF next_page_id = None
        THEN [self |-> self, ret |-> None]
        ELSE [self |-> [self EXCEPT !.from_date = parse_millis(next_page_id[1])[1]],
              ret  |-> next_page_id] :
          self \in {pager_}, next_page_id \in {get_next_page_id(pager_)} } : TRUE

\* the step of one identifier, shared by move_candle_id and get_page_candle_ids
next_from_date(candle_type, from_date) ==
    CHOOSE next \in
      { from + get_duration(candle_type, from) - 1 : from \in {from_date} } : TRUE

\* the cursor of the pager as an instant: None without cursor or when the
\* cursor does not parse, which panics
cursor_date(self) ==
    IF self.page_id = None THEN None ELSE parse_millis(self.page_id[1])

\* [self |-> the pager afterwards, ret |-> the identifier returned,
\*  panic |-> the cursor did not parse]
move_candle_id(pager_) ==
    CHOOSE r \in
      { IF self.last_item_no >= self.limit
        THEN [self |-> self, ret |-> None, panic |-> FALSE]
        ELSE IF self.page_id # None /\ cursor = None
        THEN [self |-> self, ret |-> None, panic |-> TRUE]
        ELSE
          LET from_date == IF self.page_id # None THEN cursor[1] ELSE self.from_date
          IN  IF from_date >= self.to_date
              THEN [self  |-> [self EXCEPT !.from_date = from_date],
                    ret   |-> None,
                    panic |-> FALSE]
              ELSE [self  |-> [self EXCEPT
                                 !.last_item_no = @ + 1,
                                 !.from_date = next_from_date(self.candle_type, from_date)],
                    ret   |-> Some(generate_id(self.instrument, self.candle_type,
                                               from_date)),
                    panic |-> FALSE] :
          self \in {pager_}, cursor \in {cursor_date(pager_)} } : TRUE

\* the loop of get_page_candle_ids: n iterations left
RECURSIVE page_loop(_, _, _, _)
page_loop(pager_, from_date_, n_, ids_) ==
    CHOOSE r \in
      { IF n = 0 \/ from_date >= self.to_date
        THEN ids
        ELSE page_loop(self,
                       next_from_date(self.candle_type, from_date),
                       n - 1,
                       Append(ids, generate_id(self.instrument, self.candle_type,
                                               from_date))) :
          self \in {pager_}, from_date \in {from_date_}, n \in {n_}, ids \in {ids_} } : TRUE

\* [ret |-> the identifiers, panic |-> the cursor did not parse]
get_page_candle_ids(pager_) ==
    CHOOSE r \in
      { IF self.last_item_no >= self.limit
        THEN [ret |-> <<>>, panic |-> FALSE]
        ELSE IF self.page_id # None /\ cursor = None
        THEN [ret |-> <<>>, panic |-> TRUE]
        ELSE
          LET from_date == IF self.page_id # None THEN cursor[1] ELSE self.from_date
              limit     == IF self.limit > dates_count THEN dates_count ELSE self.limit
          IN  [ret |-> page_loop(self, from_date, limit, <<>>), panic |-> FALSE] :
          self \in {pager_},
          cursor \in {cursor_date(pager_)},
          dates_count \in
              {get_dates_count(pager_.candle_type, pager_.from_date, pager_.to_date)} } : TRUE

(***************************************************************************)
(* CandlePrice                                                             *)
(***************************************************************************)
CandlePrice_new(datetime, price) ==
    [open |-> price, close |-> price, high |-> price, low |-> price,
     datetime |-> datetime]

CandlePrice_update(candle, datetime, rate) ==
    CHOOSE r \in
      { [open     |-> IF self.open = 0 THEN price ELSE self.open,
         close    |-> price,
         high     |-> IF self.high < price \/ self.high = 0 THEN price ELSE self.high,
         low      |-> IF self.low > price \/ self.low = 0 THEN price ELSE self.low,
         datetime |-> datetime] :
          self \in {candle}, price \in {rate} } : TRUE

(***************************************************************************)
(* CandlePricesCache: prices_by_date is the ordered map, a function from   *)
(* the bucket keys held to their aggregates.                               *)
(***************************************************************************)
EmptyMap == [k \in {} |-> 0]

CandlePricesCache_new(candle_type) ==
    [candle_type |-> candle_type, prices_by_date |-> EmptyMap]

\* the entry of the aggregate's own datetime is created or replaced
CandlePricesCache_init(cache_, candle) ==
    CHOOSE r \in
      { [self EXCEPT !.prices_by_date =
            [k \in DOMAIN self.prices_by_date \cup {c.datetime} |->
                IF k = c.datetime THEN c ELSE self.prices_by_date[k]]] :
          self \in {cache_}, c \in {candle} } : TRUE

\* CandleType::candle_date: the bucket start of the tick
candle_date(candle_type, datetime) == get_start_date(candle_type, datetime)

CandlePricesCache_update(cache_, datetime, rate) ==
    CHOOSE r \in
      { LET map == self.prices_by_date
        IN  IF timestamp_sec \in DOMAIN map
            THEN [self EXCEPT !.prices_by_date =
                     [map EXCEPT ![timestamp_sec] = CandlePrice_update(@, datetime, rate)]]
            ELSE [self EXCEPT !.prices_by_date =
                     [k \in DOMAIN map \cup {timestamp_sec} |->
                         IF k = timestamp_sec
                         THEN CandlePrice_new(timestamp_sec, rate)
                         ELSE map[k]]] :
          self \in {cache_},
          timestamp_sec \in {candle_date(cache_.candle_type, datetime)} } : TRUE

\* the elements of a set of keys in the order a BTreeMap iterates them
RECURSIVE ascending(_)
ascending(keys) ==
    CHOOSE seq \in
      { IF S = {} THEN <<>>
        ELSE CHOOSE r \in
               { <<least>> \o ascending(S \ {least}) :
                   least \in {CHOOSE x \in S : \A y \in S : x <= y} } : TRUE :
        S \in {keys} } : TRUE

\* prices_by_date.range(timestamp_from..=timestamp_to): the upper bound included
CandlePricesCache_get_by_date_range_inclusive(cache_, date_from, date_to) ==
    CHOOSE r \in
      { IF timestamp_from > timestamp_to
        THEN [ret |-> <<>>, panic |-> TRUE]
        ELSE [ret   |-> [i \in 1..Len(found) |-> self.prices_by_date[found[i]]],
              panic |-> FALSE] :
          self \in {cache_},
          timestamp_from \in {date_from},
          timestamp_to \in {date_to},
          found \in {ascending({k \in DOMAIN cache_.prices_by_date :
                                  date_from <= k /\ k <= date_to})} } : TRUE

\* [ret |-> the aggregates found, panic |-> the range was refused].
\* BTreeMap::range(a..b) panics when a > b ("range start is greater than
\* range end"); a = b is an empty range.
CandlePricesCache_get_by_date_range(cache_, date_from, date_to) ==
    CHOOSE r \in
      { IF timestamp_from > timestamp_to
        THEN [ret |-> <<>>, panic |-> TRUE]
        ELSE [ret   |-> [i \in 1..Len(found) |-> self.prices_by_date[found[i]]],
              panic |-> FALSE] :
          self \in {cache_},
          timestamp_from \in {date_from},
          timestamp_to \in {date_to},
          found \in {ascending({k \in DOMAIN cache_.prices_by_date :
                                  date_from <= k /\ k < date_to})} } : TRUE

(***************************************************************************)
(* CandleTypesCache: the four resolution caches of one instrument.  The    *)
(* volume it passes on is not kept by CandlePrice and is left out.         *)
(***************************************************************************)
CandleTypesCache_new(instrument_id) ==
    [instrument_id |-> instrument_id,
     minutes |-> CandlePricesCache_new(Minute),
     hours   |-> CandlePricesCache_new(Hour),
     days    |-> CandlePricesCache_new(Day),
     months  |-> CandlePricesCache_new(Month)]

CandleTypesCache_init(cache_, candle, candle_type) ==
    CHOOSE r \in
      { CASE ct = Minute -> [self EXCEPT !.minutes = CandlePricesCache_init(@, candle)]
          [] ct = Hour   -> [self EXCEPT !.hours = CandlePricesCache_init(@, candle)]
          [] ct = Day    -> [self EXCEPT !.days = CandlePricesCache_init(@, candle)]
          [] ct = Month  -> [self EXCEPT !.months = CandlePricesCache_init(@, candle)] :
          self \in {cache_}, ct \in {candle_type} } : TRUE

\* an update that leaves the months to a later call
CandleTypesCache_update_lazy(cache_, rate, datetime) ==
    CHOOSE r \in
      { [instrument_id |-> self.instrument_id,
         minutes |-> CandlePricesCache_update(self.minutes, d, price),
         hours   |-> CandlePricesCache_update(self.hours, d, price),
         days    |-> CandlePricesCache_update(self.days, d, price),
         months  |-> self.months] :
          self \in {cache_}, price \in {rate}, d \in {datetime} } : TRUE

CandleTypesCache_update(cache_, rate, datetime) ==
    CHOOSE r \in
      { [instrument_id |-> self.instrument_id,
         minutes |-> CandlePricesCache_update(self.minutes, d, price),
         hours   |-> CandlePricesCache_update(self.hours, d, price),
         days    |-> CandlePricesCache_update(self.days, d, price),
         months  |-> CandlePricesCache_update(self.months, d, price)] :
          self \in {cache_}, price \in {rate}, d \in {datetime} } : TRUE

\* the resolution cache the match on candle_type selects
CandleTypesCache_of(cache_, candle_type) ==
    CHOOSE r \in
      { CASE ct = Minute -> self.minutes
          [] ct = Hour   -> self.hours
          [] ct = Day    -> self.days
          [] ct = Month  -> self.months :
          self \in {cache_}, ct \in {candle_type} } : TRUE

CandleTypesCache_get_by_date_range(cache_, candle_type, date_from, date_to) ==
    CandlePricesCache_get_by_date_range(CandleTypesCache_of(cache_, candle_type),
                                        date_from, date_to)

(***************************************************************************)
(* CandleBidAsksCache: one map from instrument to CandleTypesCache per     *)
(* side, each behind its own RwLock.  The operators below are the bodies   *)
(* run while the lock of the side is held.                                 *)
(***************************************************************************)
\* update_bid_or_ask with the arms of the rate swapped
update_bid_or_ask_swapped(candles_, is_bid, datetime, instrument, bid, ask) ==
    CHOOSE r \in
      { IF id \in DOMAIN write_lock
        THEN [write_lock EXCEPT ![id] = CandleTypesCache_update(@, rarget_rate, datetime)]
        ELSE [i \in DOMAIN write_lock \cup {id} |->
                 IF i = id
                 THEN CandleTypesCache_update(CandleTypesCache_new(id),
                                              rarget_rate, datetime)
                 ELSE write_lock[i]] :
          write_lock \in {candles_},
          id \in {instrument},
          rarget_rate \in {IF is_bid THEN ask ELSE bid} } : TRUE

\* update_bid_or_ask inserting a new CandleTypesCache whether or not the
\* instrument is held
update_bid_or_ask_overwrite(candles_, is_bid, datetime, instrument, bid, ask) ==
    CHOOSE r \in
      { [i \in DOMAIN write_lock \cup {id} |->
            IF i = id
            THEN CandleTypesCache_update(CandleTypesCache_new(id),
                                         rarget_rate, datetime)
            ELSE write_lock[i]] :
          write_lock \in {candles_},
          id \in {instrument},
          rarget_rate \in {IF is_bid THEN bid ELSE ask} } : TRUE

\* the map of the side after update_bid_or_ask
update_bid_or_ask(candles_, is_bid, datetime, instrument, bid, ask) ==
    CHOOSE r \in
      { IF id \in DOMAIN write_lock
        THEN [write_lock EXCEPT ![id] = CandleTypesCache_update(@, rarget_rate, datetime)]
        ELSE [i \in DOMAIN write_lock \cup {id} |->
                 IF i = id
                 THEN CandleTypesCache_update(CandleTypesCache_new(id),
                                              rarget_rate, datetime)
                 ELSE write_lock[i]] :
          write_lock \in {candles_},
          id \in {instrument},
          rarget_rate \in {IF is_bid THEN bid ELSE ask} } : TRUE

\* [ret, panic] of the range query on the map of the side
CandleBidAsksCache_get_by_date_range(candles_, instument_id, candle_type, date_from, date_to) ==
    CHOOSE r \in
      { IF id \in DOMAIN target_cache
        THEN CandleTypesCache_get_by_date_range(target_cache[id], candle_type,
                                                date_from, date_to)
        ELSE [ret |-> <<>>, panic |-> FALSE] :
          target_cache \in {candles_}, id \in {instument_id} } : TRUE

\* the map of the side after init
CandleBidAsksCache_init(candles_, instument_id, candle_type, candle) ==
    CHOOSE r \in
      { IF id \in DOMAIN target_cache
        THEN [target_cache EXCEPT ![id] = CandleTypesCache_init(@, candle, candle_type)]
        ELSE [i \in DOMAIN target_cache \cup {id} |->
                 IF i = id
                 THEN CandleTypesCache_init(CandleTypesCache_new(id), candle,
                                            candle_type)
                 ELSE target_cache[i]] :
          target_cache \in {candles_}, id \in {instument_id} } : TRUE

\* a write guard that is never dropped: the lock stays taken
drop_write_guard_forgotten(locks_, is_bid) == locks_

\* the write guard of a side goes out of scope when the call returns
drop_write_guard(locks_, is_bid) == [locks_ EXCEPT ![is_bid].writer = None]

(***************************************************************************)
(* BidAskCandle and CandleData.  CandleData is the aggregate of one side   *)
(* of a candle: the OHLC aggregate of CandlePrice (its volume left out).   *)
(***************************************************************************)
CandleData_new(datetime, rate) == CandlePrice_new(datetime, rate)

CandleData_update(candle, datetime, rate) == CandlePrice_update(candle, datetime, rate)

BidAskCandle_update(candle_, datetime, bid, ask) ==
    CHOOSE r \in
      { [self EXCEPT !.bid_data = CandleData_update(@, d, bid),
                     !.ask_data = CandleData_update(@, d, ask)] :
          self \in {candle_}, d \in {datetime} } : TRUE

get_id(candle_) ==
    CHOOSE id \in
      { generate_id(self.instrument, self.candle_type, self.datetime) :
          self \in {candle_} } : TRUE

(***************************************************************************)
(* CandlesCache: candles_by_ids is a function from the identifiers held to *)
(* their candles, candle_types the list given to new, deduplicated.        *)
(***************************************************************************)
\* Vec::dedup: consecutive repetitions are removed
RECURSIVE dedup(_)
dedup(list_) ==
    CHOOSE r \in
      { IF Len(list) <= 1 THEN list
        ELSE CHOOSE d \in
               { IF front[Len(front)] = list[Len(list)]
                 THEN front
                 ELSE Append(front, list[Len(list)]) :
                   front \in {dedup(SubSeq(list, 1, Len(list) - 1))} } : TRUE :
        list \in {list_} } : TRUE

CandlesCache_new(candle_types) ==
    [candles_by_ids |-> EmptyMap, candle_types |-> dedup(candle_types)]

\* HashMap::insert: the entry of the key is created or replaced
map_insert(map_, key_, value_) ==
    CHOOSE r \in
      { [k \in DOMAIN map \cup {key} |-> IF k = key THEN value ELSE map[k]] :
          map \in {map_}, key \in {key_}, value \in {value_} } : TRUE

CandlesCache_insert(cache_, candle) ==
    CHOOSE r \in
      { [self EXCEPT !.candles_by_ids = map_insert(@, get_id(c), c)] :
          self \in {cache_}, c \in {candle} } : TRUE

\* one iteration of the loop of create_or_update
create_or_update_one(map_, candle_type, datetime, instrument, bid, ask) ==
    CHOOSE r \in
      { IF id \in DOMAIN map
        THEN [map EXCEPT ![id] = BidAskCandle_update(@, datetime, bid, ask)]
        ELSE map_insert(map, id,
                        [ask_data    |-> CandleData_new(datetime, ask),
                         bid_data    |-> CandleData_new(datetime, bid),
                         candle_type |-> candle_type,
                         instrument  |-> instrument,
                         datetime    |-> candle_datetime]) :
          map \in {map_},
          candle_datetime \in {get_start_date(candle_type, datetime)},
          id \in {generate_id(instrument, candle_type,
                               get_start_date(candle_type, datetime))} } : TRUE

\* the loop of create_or_update from the i-th resolution of the list on
RECURSIVE create_or_update_from(_, _, _, _, _, _, _)
create_or_update_from(map_, types_, i_, datetime, instrument, bid, ask) ==
    CHOOSE r \in
      { IF i > Len(types) THEN map
        ELSE create_or_update_from(
                 create_or_update_one(map, types[i], datetime, instrument, bid, ask),
                 types, i + 1, datetime, instrument, bid, ask) :
          map \in {map_}, types \in {types_}, i \in {i_} } : TRUE

CandlesCache_create_or_update(cache_, datetime, instrument, bid, ask) ==
    CHOOSE r \in
      { [self EXCEPT !.candles_by_ids =
            create_or_update_from(@, self.candle_types, 1, datetime, instrument,
                                  bid, ask)] :
          self \in {cache_} } : TRUE

\* Vec::insert(index, element), index counted from 0
vec_insert(vec_, index_, element) ==
    CHOOSE r \in
      { SubSeq(vec, 1, index) \o <<element>> \o SubSeq(vec, index + 1, Len(vec)) :
          vec \in {vec_}, index \in {index_} } : TRUE

\* the loop of calculate_candle_dates from the i-th resolution of the list
\* on: [dates, panic].  Vec::insert panics when index > len.
RECURSIVE calculate_candle_dates_from(_, _, _, _)
calculate_candle_dates_from(dates_, types_, i_, datetime) ==
    CHOOSE r \in
      { IF i > Len(types) THEN [dates |-> dates, panic |-> FALSE]
        ELSE IF types[i] > Len(dates) THEN [dates |-> dates, panic |-> TRUE]
        ELSE calculate_candle_dates_from(
                 vec_insert(dates, types[i], get_start_date(types[i], datetime)),
                 types, i + 1, datetime) :
          dates \in {dates_}, types \in {types_}, i \in {i_} } : TRUE

calculate_candle_dates(cache_, datetime) ==
    calculate_candle_dates_from(<<>>, cache_.candle_types, 1, datetime)

\* get_after keeping only the candles after the bucket of the date
CandlesCache_get_after_strict(cache_, datetime) ==
    CHOOSE r \in
      { IF DOMAIN map = {}
        THEN [ret |-> None, panic |-> FALSE]
        ELSE IF candle_dates.panic
                  \/ \E id \in DOMAIN map :
                         map[id].candle_type >= Len(candle_dates.dates)
        THEN [ret |-> None, panic |-> TRUE]
        ELSE [ret   |-> Some({map[id] : id \in
                               {i \in DOMAIN map :
                                   map[i].datetime
                                     > candle_dates.dates[map[i].candle_type + 1]}}),
              panic |-> FALSE] :
          map \in {cache_.candles_by_ids},
          candle_dates \in {calculate_candle_dates(cache_, datetime)} } : TRUE

\* [ret |-> None or Some(the candles found), panic].  The candles are
\* collected in the order of the hash map, which is not fixed: a set.
\* Indexing candle_dates past its length panics.
CandlesCache_get_after(cache_, datetime) ==
    CHOOSE r \in
      { IF DOMAIN map = {}
        THEN [ret |-> None, panic |-> FALSE]
        ELSE IF candle_dates.panic
                  \/ \E id \in DOMAIN map :
                         map[id].candle_type >= Len(candle_dates.dates)
        THEN [ret |-> None, panic |-> TRUE]
        ELSE [ret   |-> Some({map[id] : id \in
                               {i \in DOMAIN map :
                                   map[i].datetime
                                     >= candle_dates.dates[map[i].candle_type + 1]}}),
              panic |-> FALSE] :
          map \in {cache_.candles_by_ids},
          candle_dates \in {calculate_candle_dates(cache_, datetime)} } : TRUE

\* the outcomes get_sorted_after can have: [ret |-> None or Some(the BTreeMap
\* from datetime to candle), panic].  The candles found are collected into
\* the map under candle.datetime in the order of the hash map, which is not
\* fixed: of the candles with one datetime the last inserted is kept, and
\* that can be any of them.  Indexing candle_dates past its length panics.
CandlesCache_get_sorted_after(cache_, datetime) ==
    CHOOSE r \in
      { IF DOMAIN map = {}
        THEN {[ret |-> None, panic |-> FALSE]}
        ELSE IF candle_dates.panic
                  \/ \E id \in DOMAIN map :
                         map[id].candle_type >= Len(candle_dates.dates)
        THEN {[ret |-> None, panic |-> TRUE]}
        ELSE LET found == {map[id] : id \in
                            {i \in DOMAIN map :
                                map[i].datetime
                                  >= candle_dates.dates[map[i].candle_type + 1]}}
                 keys  == {candle.datetime : candle \in found}
             IN  {[ret   |-> Some([k \in keys |->
                                     CHOOSE candle \in kept : candle.datetime = k]),
                   panic |-> FALSE] :
                    kept \in {last \in SUBSET found :
                                \A k \in keys :
                                    Cardinality({candle \in last :
                                                   candle.datetime = k}) = 1}} :
          map \in {cache_.candles_by_ids},
          candle_dates \in {calculate_candle_dates(cache_, datetime)} } : TRUE

\* remove_before keeping the candle of the bucket of the date
CandlesCache_remove_before_strict(cache_, datetime) ==
    CHOOSE r \in
      { IF dates.panic
             \/ \E id \in DOMAIN map : map[id].candle_type >= Len(dates.dates)
        THEN [self |-> self, ret |-> 0, panic |-> TRUE]
        ELSE CHOOSE out \in
               { [self  |-> [self EXCEPT !.candles_by_ids =
                               [id \in DOMAIN map \ removed |-> map[id]]],
                  ret   |-> Cardinality(removed),
                  panic |-> FALSE] :
                   removed \in
                     {{id \in DOMAIN map :
                          map[id].datetime
                            < dates.dates[map[id].candle_type + 1]}} } : TRUE :
          self \in {cache_},
          map \in {cache_.candles_by_ids},
          dates \in {calculate_candle_dates(cache_, datetime)} } : TRUE

\* [self |-> the cache afterwards, ret |-> removed_count, panic].  A panic
\* of calculate_candle_dates comes before retain and leaves the map as it
\* was; a panic inside retain ends the call as well.
CandlesCache_remove_before(cache_, datetime) ==
    CHOOSE r \in
      { IF dates.panic
             \/ \E id \in DOMAIN map : map[id].candle_type >= Len(dates.dates)
        THEN [self |-> self, ret |-> 0, panic |-> TRUE]
        ELSE CHOOSE out \in
               { [self  |-> [self EXCEPT !.candles_by_ids =
                               [id \in DOMAIN map \ removed |-> map[id]]],
                  ret   |-> Cardinality(removed),
                  panic |-> FALSE] :
                   removed \in
                     {{id \in DOMAIN map :
                          map[id].datetime
                            <= dates.dates[map[id].candle_type + 1]}} } : TRUE :
          self \in {cache_},
          map \in {cache_.candles_by_ids},
          dates \in {calculate_candle_dates(cache_, datetime)} } : TRUE

CandlesCache_get(cache_, id_) ==
    CHOOSE r \in
      { IF id \in DOMAIN map THEN Some(map[id]) ELSE None :
          map \in {cache_.candles_by_ids}, id \in {id_} } : TRUE

(***************************************************************************)
(* State                                                                   *)
(***************************************************************************)
VARIABLES
    args,       \* the arguments CandlePager::new is called with
    phase,      \* "idle", "ready", "aborted" (new panicked), "panicked"
    pager,      \* the CandlePager, None while there is none
    log,        \* the calls of move_candle_id and move_page_id with their results
    token,      \* what get_next_page_id returned since the last mutation
    page,       \* what get_page_candle_ids returned since the last mutation
    cache,      \* a CandlePricesCache
    ticks,      \* per bucket key: the prices of the ticks applied, summarised
    updates,    \* number of CandlePricesCache::update calls made
    range,      \* the last CandlePricesCache::get_by_date_range call and its result
    bid_candles,   \* CandleBidAsksCache: instrument -> CandleTypesCache, bid side
    ask_candles,   \* the same for the ask side
    locks,      \* the RwLock of each side: its writer and its readers
    procs,      \* the position of every task in the call it is making
    applied,    \* the ticks of the update calls that have returned
    seen,       \* per side, the last range query of the reader and its result
    flat,       \* a CandlesCache
    flatOut,    \* the last call on the CandlesCache and its outcome
    tcall,      \* a call on a CandleType: its arguments, its loop state, its result
    calls,      \* number of calls made on the CandleBidAsksCache, init and clear among them
    seeded      \* the last CandleBidAsksCache::init call, the maps before and after it

vars == <<args, phase, pager, log, token, page, cache, ticks, updates, range,
          bid_candles, ask_candles, locks, procs, applied, seen,
          flat, flatOut, tcall, calls, seeded>>
pagerVars == <<args, phase, pager, log, token, page>>
cacheVars == <<cache, ticks, updates, range>>
sideVars == <<bid_candles, ask_candles, locks, procs, applied, seen>>
flatVars == <<flat, flatOut>>
typeVars == <<tcall>>
bidAskVars == <<calls, seeded>>

(***************************************************************************)
(* Inputs                                                                  *)
(***************************************************************************)
\* 2000-01-01T00:00:00Z, the start of a bucket of every resolution
BaseDate == 946684800

FromDates(ct) == {BaseDate, BaseDate + get_duration(ct, BaseDate) \div 2}

\* to_date: k bucket durations after from_date, on it or one second later,
\* and one second before from_date (a descending range)
ToDates(ct, from) ==
    {from + k * get_duration(ct, BaseDate) + e : k \in 0..MaxSpan, e \in {0, 1}}
        \cup {from - 1}

\* no cursor, the start of the second bucket, and a string that is no number
Cursors(ct) ==
    {None, Some(timestamp_millis_string(BaseDate + get_duration(ct, BaseDate))),
     Some("abc")}

PagerArgsOf(instrument, ct, from, to, cursor, limit) ==
    [instrument |-> instrument, candle_type |-> ct, from_date |-> from,
     to_date |-> to, page_id |-> cursor, limit |-> limit]

\* the pagers of the tests of candle_pager.rs on the resolutions of CandleType
TestPagers ==
    {PagerArgsOf("test", Minute, BaseDate, BaseDate + 86400, None, 2),
     PagerArgsOf("test", Minute, BaseDate, BaseDate + 86400, None, 3),
     PagerArgsOf("test", Minute, BaseDate, BaseDate + 86400, None, 5),
     PagerArgsOf("BTCUSDT", Month, with_ymd(2023, 1, 1), with_ymd(2023, 12, 6),
                 None, 10000)}

PagerArgs ==
    TestPagers \cup
    UNION { UNION { { PagerArgsOf("test", ct, from, to, cursor, limit) :
                        to \in ToDates(ct, from),
                        cursor \in Cursors(ct),
                        limit \in 0..MaxLimit } :
                    from \in FromDates(ct) } :
            ct \in CandleTypes }

\* 2022-09-07T14:03:24Z and ticks 2, 3 and 70 seconds later
TickBase == 1662559404

TickDates == {TickBase, TickBase + 2, TickBase + 3, TickBase + 70}

Prices == (0 - MaxPrice)..MaxPrice

\* the bounds of a range query: the start of the bucket of a tick, one second
\* after it, and the end of the bucket of the last tick
QueryDates(ct) ==
    {get_start_date(ct, d) + e : d \in TickDates, e \in {0, 1}}
        \cup {get_end_date(ct, TickBase + 70)}

\* the tasks that call CandleBidAsksCache concurrently
Writers == {"w1", "w2"}
Readers == {"r1"}
Procs == Writers \cup Readers

Instruments == {"EURUSD"}

\* the quotes of update: two instants 70 seconds apart across a minute boundary
SideTicks ==
    {[datetime |-> d, bid |-> p, ask |-> p + 1] :
        d \in {TickBase, TickBase + 70}, p \in {1, 2}}

\* a range that holds the bucket of every tick at every resolution: from the
\* lower bound of the tests to an hour after the first tick
QueryFrom == 1660559404
QueryTo == TickBase + 3600

\* the lists of resolutions CandlesCache::new is given: the four in order,
\* and lists that leave some out, reorder or repeat them
AllTypes == <<Minute, Hour, Day, Month>>

TypeLists ==
    {AllTypes, <<>>, <<Minute>>, <<Hour>>, <<Minute, Minute>>, <<Minute, Hour>>,
     <<Hour, Minute>>, <<Minute, Day>>, <<Minute, Hour, Minute>>}

\* the instants of the quotes of the flat cache: 100 seconds apart
FlatDates == {TickBase - 100, TickBase, TickBase + 100}

FlatQuotes ==
    {[datetime |-> d, bid |-> p, ask |-> p + 1] : d \in FlatDates, p \in {1, 2}}

\* the candles given to insert: the datetime of a candle is the start of its
\* bucket
FlatCandles ==
    {[candle_type |-> ct,
      datetime    |-> get_start_date(ct, d),
      instrument  |-> "EURUSD",
      bid_data    |-> CandleData_new(get_start_date(ct, d), 1),
      ask_data    |-> CandleData_new(get_start_date(ct, d), 2)] :
        ct \in CandleTypes, d \in FlatDates}

\* instruments of which one is another followed by digits, and one that is not
IdInstruments == {"EURUSD", "EURUSD12", "GBPUSD"}

\* 1970-01-01T00:01:00Z and 00:21:00Z, one second into the minute or at its
\* start: the decimal epoch second of the second minute is "12" followed by
\* that of the first
IdDates == {60, 61, 1260}

\* the candles given to insert next to create_or_update
IdCandles ==
    {[candle_type |-> Minute,
      datetime    |-> get_start_date(Minute, d),
      instrument  |-> i,
      bid_data    |-> CandleData_new(get_start_date(Minute, d), 1),
      ask_data    |-> CandleData_new(get_start_date(Minute, d), 2)] :
        i \in IdInstruments, d \in IdDates}

\* candles that share a bucket start with another candle: the Minute candle
\* of a second instrument at the minute of the middle quote, and the Minute
\* and the Hour candle at the start of the next hour
SharedCandles ==
    {[candle_type |-> Minute,
      datetime    |-> get_start_date(Minute, TickBase),
      instrument  |-> "GBPUSD",
      bid_data    |-> CandleData_new(get_start_date(Minute, TickBase), 1),
      ask_data    |-> CandleData_new(get_start_date(Minute, TickBase), 2)]}
      \cup {[candle_type |-> ct,
               datetime    |-> get_end_date(Hour, TickBase),
               instrument  |-> "EURUSD",
               bid_data    |-> CandleData_new(get_end_date(Hour, TickBase), 1),
               ask_data    |-> CandleData_new(get_end_date(Hour, TickBase), 2)] :
                 ct \in {Minute, Hour}}

\* the dates given to get_after and remove_before: the start of the minute of
\* the middle quote, the quote itself, and an hour later
Cutoffs == {get_start_date(Minute, TickBase), TickBase, TickBase + 3600}

\* the instants CandleType is called with: before 1970, the epoch, the dates
\* of the tests, a leap February, and December
TypeDates ==
    {0 - 90, 0 - 1, 0, BaseDate, BaseDate + 94, TickBase,
     with_ymd(2000, 2, 10), with_ymd(2000, 12, 1), with_ymd(2000, 12, 15) + 3723}

\* the calls of CandleType: a resolution, an instant, and the end of a range
\* that starts at the instant; the range of tests::get_start_dates_for_month
TypeCalls ==
    {[candle_type |-> ct,
      datetime_from |-> from,
      datetime_to |-> from + k * get_duration(ct, BaseDate) + e] :
        ct \in CandleTypes, from \in TypeDates, k \in 0..MaxSpan, e \in {0, 1}}
      \cup {[candle_type |-> Month, datetime_from |-> BaseDate,
               datetime_to |-> with_ymd(2000, 12, 1)]}

\* the instruments init is called with; update and the range query are
\* called with the first
SeedInstruments == {"EURUSD", "GBPUSD"}

\* the one quote of the update calls made next to init and clear
SeedTicks == {[datetime |-> TickBase, bid |-> 1, ask |-> 2]}

\* the aggregate given to init, dated at the start of the minute of the
\* quote: the key of the quote at Minute, inside a bucket at Month
SeedCandles == {CandlePrice_new(get_start_date(Minute, TickBase), 3)}

\* the resolutions init and the range query are called with
SeedTypes == {Minute, Month}

\* the bounds of their range queries: the range that holds every bucket, and
\* the same bounds reversed
SeedRanges == {<<QueryFrom, QueryTo>>, <<QueryTo, QueryFrom>>}

Max(a, b) == IF a >= b THEN a ELSE b
Min(a, b) == IF a <= b THEN a ELSE b

(***************************************************************************)
(* The pager                                                               *)
(***************************************************************************)
PagerIdle ==
    /\ phase = "idle"
    /\ pager = None
    /\ log = <<>>
    /\ token = None
    /\ page = None

CacheIdle ==
    /\ cache = CandlePricesCache_new(Minute)
    /\ ticks = EmptyMap
    /\ updates = 0
    /\ range = None

\* CandleBidAsksCache::new, every lock free, every task between calls
SidesIdle ==
    /\ bid_candles = EmptyMap
    /\ ask_candles = EmptyMap
    /\ locks = [is_bid \in BOOLEAN |-> [writer |-> None, readers |-> {}]]
    /\ procs = [p \in Procs |-> [pc |-> "idle", call |-> None]]
    /\ applied = <<>>
    /\ seen = [is_bid \in BOOLEAN |-> None]

FlatIdle ==
    /\ flat = None
    /\ flatOut = [calls |-> 0, last |-> None]

TypeIdle == tcall = None

BidAskIdle ==
    /\ calls = 0
    /\ seeded = None

PagerInit ==
    /\ args \in PagerArgs
    /\ PagerIdle
    /\ CacheIdle
    /\ SidesIdle
    /\ FlatIdle
    /\ BidAskIdle
    /\ TypeIdle

New ==
    /\ phase = "idle"
    /\ IF CandlePager_new_panics(args.from_date, args.to_date)
       THEN /\ phase' = "aborted"
            /\ pager' = None
       ELSE /\ phase' = "ready"
            /\ pager' = Some(CandlePager_new(args.instrument, args.candle_type,
                                             args.from_date, args.to_date,
                                             args.page_id, args.limit))
    /\ UNCHANGED <<args, log, token, page, cacheVars, sideVars, flatVars, typeVars, bidAskVars>>

MoveCandleId ==
    /\ phase = "ready"
    /\ Len(log) < MaxCalls
    /\ LET r == move_candle_id(pager[1])
       IN  IF r.panic
           THEN /\ phase' = "panicked"
                /\ UNCHANGED <<pager, log>>
           ELSE /\ pager' = Some(r.self)
                /\ log' = Append(log, [op |-> "move_candle_id", ret |-> r.ret])
                /\ UNCHANGED phase
    /\ token' = None
    /\ page' = None
    /\ UNCHANGED <<args, cacheVars, sideVars, flatVars, typeVars, bidAskVars>>

MovePageId ==
    /\ phase = "ready"
    /\ Len(log) < MaxCalls
    /\ LET r == move_page_id(pager[1])
       IN  /\ pager' = Some(r.self)
           /\ log' = Append(log, [op |-> "move_page_id", ret |-> r.ret])
    /\ token' = None
    /\ page' = None
    /\ UNCHANGED <<args, phase, cacheVars, sideVars, flatVars, typeVars, bidAskVars>>

GetNextPageId ==
    /\ phase = "ready"
    /\ token' = Some(get_next_page_id(pager[1]))
    /\ UNCHANGED <<args, phase, pager, log, page, cacheVars, sideVars, flatVars, typeVars, bidAskVars>>

GetPageCandleIds ==
    /\ phase = "ready"
    /\ LET r == get_page_candle_ids(pager[1])
       IN  IF r.panic
           THEN /\ phase' = "panicked"
                /\ UNCHANGED page
           ELSE /\ page' = Some(r.ret)
                /\ UNCHANGED phase
    /\ UNCHANGED <<args, pager, log, token, cacheVars, sideVars, flatVars, typeVars, bidAskVars>>

PagerNext ==
    \/ New
    \/ MoveCandleId
    \/ MovePageId
    \/ GetNextPageId
    \/ GetPageCandleIds

PagerSpec == PagerInit /\ [][PagerNext]_vars

(***************************************************************************)
(* The resolution cache                                                    *)
(***************************************************************************)
CacheInit ==
    /\ args = PagerArgsOf("test", Minute, BaseDate, BaseDate, None, 0)
    /\ PagerIdle
    /\ cache \in {CandlePricesCache_new(ct) : ct \in CandleTypes}
    /\ ticks = EmptyMap
    /\ updates = 0
    /\ range = None
    /\ SidesIdle
    /\ FlatIdle
    /\ BidAskIdle
    /\ TypeIdle

\* the call that panicked ended the run
RangePanicked == range # None /\ range[1].panic

\* the summary of the ticks of one bucket after one more tick of this price
Ticked(key, price) ==
    IF key \in DOMAIN ticks
    THEN [first |-> ticks[key].first,
          last  |-> price,
          max   |-> Max(ticks[key].max, price),
          min   |-> Min(ticks[key].min, price),
          count |-> ticks[key].count + 1]
    ELSE [first |-> price, last |-> price, max |-> price, min |-> price,
          count |-> 1]

Update ==
    /\ ~RangePanicked
    /\ updates < MaxUpdates
    /\ \E datetime \in TickDates, rate \in Prices :
          LET key == get_start_date(cache.candle_type, datetime)
          IN  /\ cache' = CandlePricesCache_update(cache, datetime, rate)
              /\ ticks' = [k \in DOMAIN ticks \cup {key} |->
                              IF k = key THEN Ticked(key, rate) ELSE ticks[k]]
    /\ updates' = updates + 1
    /\ range' = None
    /\ UNCHANGED <<pagerVars, sideVars, flatVars, typeVars, bidAskVars>>

\* The query only reads: one query is recorded between two updates.
GetByDateRange ==
    /\ range = None
    /\ \E date_from \in QueryDates(cache.candle_type),
          date_to \in QueryDates(cache.candle_type) :
          LET r == CandlePricesCache_get_by_date_range(cache, date_from, date_to)
          IN  range' = Some([date_from |-> date_from, date_to |-> date_to,
                             ret |-> r.ret, panic |-> r.panic])
    /\ UNCHANGED <<pagerVars, cache, ticks, updates, sideVars, flatVars, typeVars, bidAskVars>>

CacheNext ==
    \/ Update
    \/ GetByDateRange

CacheSpec == CacheInit /\ [][CacheNext]_vars

(***************************************************************************)
(* The bid/ask cache under concurrent tasks.  A task that awaits a lock    *)
(* waits until the lock is granted; the body of a call runs while the lock *)
(* is held and the guard is dropped when the call returns or panics.       *)
(***************************************************************************)
SidesInit ==
    /\ args = PagerArgsOf("test", Minute, BaseDate, BaseDate, None, 0)
    /\ PagerIdle
    /\ CacheIdle
    /\ SidesIdle
    /\ FlatIdle
    /\ BidAskIdle
    /\ TypeIdle

\* the number of update calls made so far
Issued == Len(applied) + Cardinality({w \in Writers : procs[w].pc # "idle"})

\* CandleBidAsksCache::update is called: it first awaits update_bid_or_ask(true)
CallUpdate(p) ==
    /\ procs[p].pc = "idle"
    /\ Issued < MaxTicks
    /\ \E tick \in SideTicks, instrument \in Instruments :
          procs' = [procs EXCEPT ![p] =
                      [pc   |-> "write_wait",
                       call |-> Some([is_bid |-> TRUE, instrument |-> instrument,
                                      datetime |-> tick.datetime,
                                      bid |-> tick.bid, ask |-> tick.ask])]]
    /\ UNCHANGED <<bid_candles, ask_candles, locks, applied, seen>>
    /\ UNCHANGED <<pagerVars, cacheVars, flatVars, typeVars, bidAskVars>>

\* self.bid_candles.write().await / self.ask_candles.write().await is granted
AcquireWrite(p) ==
    /\ procs[p].pc = "write_wait"
    /\ LET is_bid == procs[p].call[1].is_bid
       IN  /\ locks[is_bid].writer = None
           /\ locks[is_bid].readers = {}
           /\ locks' = [locks EXCEPT ![is_bid].writer = Some(p)]
    /\ procs' = [procs EXCEPT ![p].pc = "write_held"]
    /\ UNCHANGED <<bid_candles, ask_candles, applied, seen>>
    /\ UNCHANGED <<pagerVars, cacheVars, flatVars, typeVars, bidAskVars>>

\* the body of update_bid_or_ask under the write lock; after the bid side the
\* task awaits the ask side, after the ask side update returns
UpdateBidOrAsk(p) ==
    /\ procs[p].pc = "write_held"
    /\ LET c == procs[p].call[1]
       IN  /\ IF c.is_bid
              THEN /\ bid_candles' = update_bid_or_ask(bid_candles, TRUE, c.datetime,
                                                       c.instrument, c.bid, c.ask)
                   /\ procs' = [procs EXCEPT
                                  ![p].pc = "write_wait",
                                  ![p].call = Some([c EXCEPT !.is_bid = FALSE])]
                   /\ UNCHANGED <<ask_candles, applied>>
              ELSE /\ ask_candles' = update_bid_or_ask(ask_candles, FALSE, c.datetime,
                                                       c.instrument, c.bid, c.ask)
                   /\ procs' = [procs EXCEPT ![p].pc = "idle", ![p].call = None]
                   /\ applied' = Append(applied,
                                        [instrument |-> c.instrument,
                                         datetime |-> c.datetime,
                                         bid |-> c.bid, ask |-> c.ask])
                   /\ UNCHANGED bid_candles
           /\ locks' = [locks EXCEPT ![c.is_bid].writer = None]
    /\ UNCHANGED seen
    /\ UNCHANGED <<pagerVars, cacheVars, flatVars, typeVars, bidAskVars>>

\* CandleBidAsksCache::get_by_date_range is called.  The reader queries each
\* side once, in either order, for the same instrument and resolution.
CallGetByDateRange(p) ==
    /\ procs[p].pc = "idle"
    /\ \E instrument \in Instruments, candle_type \in CandleTypes,
          is_bid \in BOOLEAN :
          /\ seen[is_bid] = None
          /\ seen[~is_bid] # None =>
                /\ seen[~is_bid][1].instrument = instrument
                /\ seen[~is_bid][1].candle_type = candle_type
          /\ procs' = [procs EXCEPT ![p] =
                      [pc   |-> "read_wait",
                       call |-> Some([is_bid |-> is_bid, instrument |-> instrument,
                                      candle_type |-> candle_type,
                                      date_from |-> QueryFrom, date_to |-> QueryTo])]]
    /\ UNCHANGED <<bid_candles, ask_candles, locks, applied, seen>>
    /\ UNCHANGED <<pagerVars, cacheVars, flatVars, typeVars, bidAskVars>>

\* self.bid_candles.read().await / self.ask_candles.read().await is granted
AcquireRead(p) ==
    /\ procs[p].pc = "read_wait"
    /\ LET is_bid == procs[p].call[1].is_bid
       IN  /\ locks[is_bid].writer = None
           /\ locks' = [locks EXCEPT ![is_bid].readers = @ \cup {p}]
    /\ procs' = [procs EXCEPT ![p].pc = "read_held"]
    /\ UNCHANGED <<bid_candles, ask_candles, applied, seen>>
    /\ UNCHANGED <<pagerVars, cacheVars, flatVars, typeVars, bidAskVars>>

\* the body of get_by_date_range under the read lock
ReadByDateRange(p) ==
    /\ procs[p].pc = "read_held"
    /\ LET c == procs[p].call[1]
           r == CandleBidAsksCache_get_by_date_range(
                    IF c.is_bid THEN bid_candles ELSE ask_candles,
                    c.instrument, c.candle_type, c.date_from, c.date_to)
       IN  /\ seen' = [seen EXCEPT ![c.is_bid] =
                         Some([instrument |-> c.instrument,
                               candle_type |-> c.candle_type,
                               date_from |-> c.date_from, date_to |-> c.date_to,
                               ret |-> r.ret, panic |-> r.panic])]
           /\ procs' = [procs EXCEPT
                          ![p].pc = IF r.panic THEN "panicked" ELSE "idle",
                          ![p].call = None]
           /\ locks' = [locks EXCEPT ![c.is_bid].readers = @ \ {p}]
    /\ UNCHANGED <<bid_candles, ask_candles, applied>>
    /\ UNCHANGED <<pagerVars, cacheVars, flatVars, typeVars, bidAskVars>>

SidesNext ==
    \/ \E p \in Writers : CallUpdate(p)
    \/ \E p \in Writers : AcquireWrite(p)
    \/ \E p \in Writers : UpdateBidOrAsk(p)
    \/ \E p \in Readers : CallGetByDateRange(p)
    \/ \E p \in Readers : AcquireRead(p)
    \/ \E p \in Readers : ReadByDateRange(p)

SidesSpec == SidesInit /\ [][SidesNext]_vars

(***************************************************************************)
(* The bid/ask cache with all four calls: update, init, get_by_date_range  *)
(* and clear, made by any task.  clear takes &mut self, which hands its    *)
(* caller the cache alone; the calls below are not held to that, so that   *)
(* clear is followed among the other calls as well.                        *)
(***************************************************************************)
BidAskInit ==
    /\ args = PagerArgsOf("test", Minute, BaseDate, BaseDate, None, 0)
    /\ PagerIdle
    /\ CacheIdle
    /\ SidesIdle
    /\ FlatIdle
    /\ BidAskIdle
    /\ TypeIdle

\* CandleBidAsksCache::update is called
CallUpdateOf(p) ==
    /\ procs[p].pc = "idle"
    /\ calls < MaxSideCalls
    /\ \E tick \in SeedTicks, instrument \in {"EURUSD"} :
          procs' = [procs EXCEPT ![p] =
                      [pc   |-> "write_wait",
                       call |-> Some([is_bid |-> TRUE, instrument |-> instrument,
                                      datetime |-> tick.datetime,
                                      bid |-> tick.bid, ask |-> tick.ask])]]
    /\ calls' = calls + 1
    /\ UNCHANGED <<bid_candles, ask_candles, locks, applied, seen, seeded>>
    /\ UNCHANGED <<pagerVars, cacheVars, flatVars, typeVars>>

\* CandleBidAsksCache::init is called: it awaits the write lock of its side
CallInit(p) ==
    /\ procs[p].pc = "idle"
    /\ calls < MaxSideCalls
    /\ \E instument_id \in SeedInstruments, is_bid \in BOOLEAN,
          candle_type \in SeedTypes, candle \in SeedCandles :
          procs' = [procs EXCEPT ![p] =
                      [pc   |-> "init_wait",
                       call |-> Some([is_bid |-> is_bid, instrument |-> instument_id,
                                      candle_type |-> candle_type,
                                      candle |-> candle])]]
    /\ calls' = calls + 1
    /\ UNCHANGED <<bid_candles, ask_candles, locks, applied, seen, seeded>>
    /\ UNCHANGED <<pagerVars, cacheVars, flatVars, typeVars>>

\* self.bid_candles.write().await / self.ask_candles.write().await of init
\* is granted
AcquireInit(p) ==
    /\ procs[p].pc = "init_wait"
    /\ LET is_bid == procs[p].call[1].is_bid
       IN  /\ locks[is_bid].writer = None
           /\ locks[is_bid].readers = {}
           /\ locks' = [locks EXCEPT ![is_bid].writer = Some(p)]
    /\ procs' = [procs EXCEPT ![p].pc = "init_held"]
    /\ UNCHANGED <<bid_candles, ask_candles, applied, seen, calls, seeded>>
    /\ UNCHANGED <<pagerVars, cacheVars, flatVars, typeVars>>

\* the body of init under the write lock
InitSide(p) ==
    /\ procs[p].pc = "init_held"
    /\ LET c     == procs[p].call[1]
           after == CandleBidAsksCache_init(
                        IF c.is_bid THEN bid_candles ELSE ask_candles,
                        c.instrument, c.candle_type, c.candle)
       IN  /\ bid_candles' = IF c.is_bid THEN after ELSE bid_candles
           /\ ask_candles' = IF c.is_bid THEN ask_candles ELSE after
           /\ seeded' = Some([is_bid |-> c.is_bid, instrument |-> c.instrument,
                               candle_type |-> c.candle_type, candle |-> c.candle,
                               bid_before |-> bid_candles,
                               ask_before |-> ask_candles,
                               bid_after  |-> bid_candles',
                               ask_after  |-> ask_candles'])
           /\ locks' = drop_write_guard(locks, c.is_bid)
    /\ procs' = [procs EXCEPT ![p].pc = "idle", ![p].call = None]
    /\ UNCHANGED <<applied, seen, calls>>
    /\ UNCHANGED <<pagerVars, cacheVars, flatVars, typeVars>>

\* CandleBidAsksCache::get_by_date_range is called
CallGetByDateRangeOf(p) ==
    /\ procs[p].pc = "idle"
    /\ calls < MaxSideCalls
    /\ \E instument_id \in {"EURUSD"}, candle_type \in {Minute},
          is_bid \in BOOLEAN, dates \in SeedRanges :
          procs' = [procs EXCEPT ![p] =
                      [pc   |-> "read_wait",
                       call |-> Some([is_bid |-> is_bid, instrument |-> instument_id,
                                      candle_type |-> candle_type,
                                      date_from |-> dates[1],
                                      date_to |-> dates[2]])]]
    /\ calls' = calls + 1
    /\ UNCHANGED <<bid_candles, ask_candles, locks, applied, seen, seeded>>
    /\ UNCHANGED <<pagerVars, cacheVars, flatVars, typeVars>>

\* CandleBidAsksCache::clear is called: it awaits the write lock of the bids
CallClear(p) ==
    /\ procs[p].pc = "idle"
    /\ calls < MaxSideCalls
    /\ procs' = [procs EXCEPT ![p] = [pc |-> "clear_bids_wait", call |-> None]]
    /\ calls' = calls + 1
    /\ UNCHANGED <<bid_candles, ask_candles, locks, applied, seen, seeded>>
    /\ UNCHANGED <<pagerVars, cacheVars, flatVars, typeVars>>

\* self.bid_candles.write().await of clear is granted
AcquireClearBids(p) ==
    /\ procs[p].pc = "clear_bids_wait"
    /\ locks[TRUE].writer = None
    /\ locks[TRUE].readers = {}
    /\ locks' = [locks EXCEPT ![TRUE].writer = Some(p)]
    /\ procs' = [procs EXCEPT ![p].pc = "clear_bids_held"]
    /\ UNCHANGED <<bid_candles, ask_candles, applied, seen, calls, seeded>>
    /\ UNCHANGED <<pagerVars, cacheVars, flatVars, typeVars>>

\* bids.clear(), then clear awaits the write lock of the asks, the guard of
\* the bids still alive
ClearBids(p) ==
    /\ procs[p].pc = "clear_bids_held"
    /\ bid_candles' = EmptyMap
    /\ procs' = [procs EXCEPT ![p].pc = "clear_asks_wait"]
    /\ UNCHANGED <<ask_candles, locks, applied, seen, calls, seeded>>
    /\ UNCHANGED <<pagerVars, cacheVars, flatVars, typeVars>>

\* self.ask_candles.write().await of clear is granted
AcquireClearAsks(p) ==
    /\ procs[p].pc = "clear_asks_wait"
    /\ locks[FALSE].writer = None
    /\ locks[FALSE].readers = {}
    /\ locks' = [locks EXCEPT ![FALSE].writer = Some(p)]
    /\ procs' = [procs EXCEPT ![p].pc = "clear_asks_held"]
    /\ UNCHANGED <<bid_candles, ask_candles, applied, seen, calls, seeded>>
    /\ UNCHANGED <<pagerVars, cacheVars, flatVars, typeVars>>

\* asks.clear(), then clear returns and both guards are dropped
ClearAsks(p) ==
    /\ procs[p].pc = "clear_asks_held"
    /\ ask_candles' = EmptyMap
    /\ locks' = drop_write_guard(drop_write_guard(locks, FALSE), TRUE)
    /\ procs' = [procs EXCEPT ![p].pc = "idle"]
    /\ UNCHANGED <<bid_candles, applied, seen, calls, seeded>>
    /\ UNCHANGED <<pagerVars, cacheVars, flatVars, typeVars>>

BidAskNext ==
    \/ \E p \in Procs : CallUpdateOf(p)
    \/ \E p \in Procs : AcquireWrite(p)
    \/ \E p \in Procs : UpdateBidOrAsk(p)
    \/ \E p \in Procs : CallInit(p)
    \/ \E p \in Procs : AcquireInit(p)
    \/ \E p \in Procs : InitSide(p)
    \/ \E p \in Procs : CallGetByDateRangeOf(p)
    \/ \E p \in Procs : AcquireRead(p)
    \/ \E p \in Procs : ReadByDateRange(p)
    \/ \E p \in Procs : CallClear(p)
    \/ \E p \in Procs : AcquireClearBids(p)
    \/ \E p \in Procs : ClearBids(p)
    \/ \E p \in Procs : AcquireClearAsks(p)
    \/ \E p \in Procs : ClearAsks(p)

BidAskSpec == BidAskInit /\ [][BidAskNext]_vars

\* the steps of a call once it is made: the grants of a lock and the bodies
BidAskStep(p) ==
    \/ AcquireWrite(p)
    \/ UpdateBidOrAsk(p)
    \/ AcquireInit(p)
    \/ InitSide(p)
    \/ AcquireRead(p)
    \/ ReadByDateRange(p)
    \/ AcquireClearBids(p)
    \/ ClearBids(p)
    \/ AcquireClearAsks(p)
    \/ ClearAsks(p)

\* The runtime polls every task that can run, and the RwLock of tokio grants
\* a lock that stays free to a task that waits for it: a step of a call that
\* stays possible is taken.  No task is bound to make a call.
FairBidAskSpec == BidAskSpec /\ \A p \in Procs : WF_vars(BidAskStep(p))

(***************************************************************************)
(* The flat cache                                                          *)
(***************************************************************************)
FlatInit ==
    /\ args = PagerArgsOf("test", Minute, BaseDate, BaseDate, None, 0)
    /\ PagerIdle
    /\ CacheIdle
    /\ SidesIdle
    /\ FlatIdle
    /\ BidAskIdle
    /\ TypeIdle

\* the call that panicked ended the run
FlatPanicked == flatOut.last # None /\ flatOut.last[1].panic

FlatNew ==
    /\ flat = None
    /\ \E candle_types \in TypeLists : flat' = Some(CandlesCache_new(candle_types))
    /\ UNCHANGED flatOut
    /\ UNCHANGED <<pagerVars, cacheVars, sideVars, typeVars, bidAskVars>>

FlatCreateOrUpdate ==
    /\ flat # None
    /\ ~FlatPanicked
    /\ flatOut.calls < MaxFlatCalls
    /\ \E quote \in FlatQuotes :
          flat' = Some(CandlesCache_create_or_update(flat[1], quote.datetime, "EURUSD",
                                                     quote.bid, quote.ask))
    /\ flatOut' = [calls |-> flatOut.calls + 1, last |-> None]
    /\ UNCHANGED <<pagerVars, cacheVars, sideVars, typeVars, bidAskVars>>

FlatInsert ==
    /\ flat # None
    /\ ~FlatPanicked
    /\ flatOut.calls < MaxFlatCalls
    /\ \E candle \in FlatCandles : flat' = Some(CandlesCache_insert(flat[1], candle))
    /\ flatOut' = [calls |-> flatOut.calls + 1, last |-> None]
    /\ UNCHANGED <<pagerVars, cacheVars, sideVars, typeVars, bidAskVars>>

\* get_after only reads: one call is recorded between two other calls
FlatGetAfter ==
    /\ flat # None
    /\ ~FlatPanicked
    /\ IF flatOut.last = None THEN TRUE ELSE flatOut.last[1].op # "get_after"
    /\ \E datetime \in Cutoffs :
          LET r == CandlesCache_get_after(flat[1], datetime)
          IN  flatOut' = [flatOut EXCEPT !.last =
                            Some([op |-> "get_after", datetime |-> datetime,
                                  before |-> flat[1],
                                  ret |-> r.ret, panic |-> r.panic])]
    /\ UNCHANGED flat
    /\ UNCHANGED <<pagerVars, cacheVars, sideVars, typeVars, bidAskVars>>

\* get_sorted_after only reads: one call is recorded between two other calls
FlatGetSortedAfter ==
    /\ flat # None
    /\ ~FlatPanicked
    /\ IF flatOut.last = None THEN TRUE ELSE flatOut.last[1].op # "get_sorted_after"
    /\ \E datetime \in Cutoffs :
          \E r \in CandlesCache_get_sorted_after(flat[1], datetime) :
              flatOut' = [flatOut EXCEPT !.last =
                            Some([op |-> "get_sorted_after", datetime |-> datetime,
                                  before |-> flat[1],
                                  ret |-> r.ret, panic |-> r.panic])]
    /\ UNCHANGED flat
    /\ UNCHANGED <<pagerVars, cacheVars, sideVars, typeVars, bidAskVars>>

FlatRemoveBefore ==
    /\ flat # None
    /\ ~FlatPanicked
    /\ flatOut.calls < MaxFlatCalls
    /\ \E datetime \in Cutoffs :
          LET r == CandlesCache_remove_before(flat[1], datetime)
          IN  /\ flat' = Some(r.self)
              /\ flatOut' = [calls |-> flatOut.calls + 1,
                             last  |-> Some([op |-> "remove_before",
                                             datetime |-> datetime,
                                             before |-> flat[1],
                                             ret |-> r.ret, panic |-> r.panic])]
    /\ UNCHANGED <<pagerVars, cacheVars, sideVars, typeVars, bidAskVars>>

FlatNext ==
    \/ FlatNew
    \/ FlatCreateOrUpdate
    \/ FlatInsert
    \/ FlatGetAfter
    \/ FlatRemoveBefore

FlatSpec == FlatInit /\ [][FlatNext]_vars

\* insert of a candle that shares its bucket start with another candle
FlatInsertShared ==
    /\ flat # None
    /\ ~FlatPanicked
    /\ flatOut.calls < MaxFlatCalls
    /\ \E candle \in SharedCandles : flat' = Some(CandlesCache_insert(flat[1], candle))
    /\ flatOut' = [calls |-> flatOut.calls + 1, last |-> None]
    /\ UNCHANGED <<pagerVars, cacheVars, sideVars, typeVars, bidAskVars>>

\* the flat cache read by get_sorted_after
SortedNext ==
    \/ FlatNew
    \/ FlatCreateOrUpdate
    \/ FlatInsertShared
    \/ FlatRemoveBefore
    \/ FlatGetSortedAfter

SortedSpec == FlatInit /\ [][SortedNext]_vars

\* create_or_update of a quote of any of the instruments; the buckets the
\* call is for are recorded
IdCreateOrUpdate ==
    /\ flat # None
    /\ flatOut.calls < MaxFlatCalls
    /\ \E instrument \in IdInstruments, datetime \in IdDates :
          /\ flat' = Some(CandlesCache_create_or_update(flat[1], datetime,
                                                        instrument, 1, 2))
          /\ flatOut' = [calls |-> flatOut.calls + 1,
                         last  |-> Some([op |-> "create_or_update",
                                         datetime |-> datetime,
                                         before |-> flat[1],
                                         ret |-> {<<flat[1].candle_types[i], instrument,
                                                    get_start_date(
                                                        flat[1].candle_types[i],
                                                        datetime)>> :
                                                    i \in 1..Len(flat[1].candle_types)},
                                         panic |-> FALSE])]
    /\ UNCHANGED <<pagerVars, cacheVars, sideVars, typeVars, bidAskVars>>

\* insert of a candle of any of the instruments; its bucket is recorded
IdInsert ==
    /\ flat # None
    /\ flatOut.calls < MaxFlatCalls
    /\ \E candle \in IdCandles :
          /\ flat' = Some(CandlesCache_insert(flat[1], candle))
          /\ flatOut' = [calls |-> flatOut.calls + 1,
                         last  |-> Some([op |-> "insert",
                                         datetime |-> candle.datetime,
                                         before |-> flat[1],
                                         ret |-> {<<candle.candle_type,
                                                    candle.instrument,
                                                    candle.datetime>>},
                                         panic |-> FALSE])]
    /\ UNCHANGED <<pagerVars, cacheVars, sideVars, typeVars, bidAskVars>>

\* the flat cache filled for several instruments
IdNext ==
    \/ FlatNew
    \/ IdCreateOrUpdate
    \/ IdInsert

IdSpec == FlatInit /\ [][IdNext]_vars

(***************************************************************************)
(* The calls on a CandleType.  get_start_dates is followed through the     *)
(* iterations of its loop.                                                 *)
(***************************************************************************)
\* the call before it ran
TypeCallOf(c) ==
    [op |-> "none", candle_type |-> c.candle_type,
     datetime_from |-> c.datetime_from, datetime_to |-> c.datetime_to,
     ret |-> 0, again |-> 0, dates |-> {}, last_date |-> 0, date_to |-> 0,
     pc |-> "called"]

TypeInit ==
    /\ args = PagerArgsOf("test", Minute, BaseDate, BaseDate, None, 0)
    /\ PagerIdle
    /\ CacheIdle
    /\ SidesIdle
    /\ FlatIdle
    /\ BidAskIdle
    /\ tcall \in {Some(TypeCallOf(c)) : c \in TypeCalls}

\* get_start_date of the instant, and get_start_date of what it returned
GetStartDate ==
    /\ tcall[1].pc = "called"
    /\ LET c == tcall[1]
           start == get_start_date(c.candle_type, c.datetime_from)
       IN  tcall' = Some([c EXCEPT !.op = "get_start_date",
                                   !.ret = start,
                                   !.again = get_start_date(c.candle_type, start),
                                   !.pc = "done"])
    /\ UNCHANGED <<pagerVars, cacheVars, sideVars, flatVars, bidAskVars>>

GetDuration ==
    /\ tcall[1].pc = "called"
    /\ tcall' = Some([tcall[1] EXCEPT
                        !.op = "get_duration",
                        !.ret = get_duration(tcall[1].candle_type,
                                             tcall[1].datetime_from),
                        !.pc = "done"])
    /\ UNCHANGED <<pagerVars, cacheVars, sideVars, flatVars, bidAskVars>>

\* get_start_dates up to its loop
GetStartDates ==
    /\ tcall[1].pc = "called"
    /\ LET c == tcall[1]
           date_from == get_start_date(c.candle_type, c.datetime_from)
       IN  tcall' = Some([c EXCEPT
                            !.op = "get_start_dates",
                            !.dates = {date_from},
                            !.date_to = get_start_date(c.candle_type, c.datetime_to),
                            !.last_date = get_start_date(c.candle_type, date_from),
                            !.pc = "loop"])
    /\ UNCHANGED <<pagerVars, cacheVars, sideVars, flatVars, bidAskVars>>

\* one test of the loop condition of get_start_dates, and one iteration
GetStartDatesLoop ==
    /\ tcall[1].pc = "loop"
    /\ LET c == tcall[1]
       IN  IF c.last_date < c.date_to
           THEN LET next_date == get_start_date(c.candle_type, c.last_date)
                                   + get_duration(c.candle_type, c.last_date)
                    last_date == get_start_date(c.candle_type, next_date)
                IN  tcall' = Some([c EXCEPT !.last_date = last_date,
                                            !.dates = @ \cup {last_date}])
           ELSE tcall' = Some([c EXCEPT !.pc = "done"])
    /\ UNCHANGED <<pagerVars, cacheVars, sideVars, flatVars, bidAskVars>>

\* get_end_date of the instant; again keeps the start of its bucket
GetEndDate ==
    /\ tcall[1].pc = "called"
    /\ LET c == tcall[1]
       IN  tcall' = Some([c EXCEPT
                            !.op = "get_end_date",
                            !.ret = get_end_date(c.candle_type, c.datetime_from),
                            !.again = get_start_date(c.candle_type, c.datetime_from),
                            !.pc = "done"])
    /\ UNCHANGED <<pagerVars, cacheVars, sideVars, flatVars, bidAskVars>>

TypeNext ==
    \/ GetStartDate
    \/ GetDuration
    \/ GetStartDates
    \/ GetStartDatesLoop
    \/ GetEndDate

TypeSpec == TypeInit /\ [][TypeNext]_vars

\* a call that was made runs on: the loop of get_start_dates takes its next
\* iteration as long as its condition holds
FairTypeSpec == TypeSpec /\ WF_vars(TypeNext)

(***************************************************************************)
(* What the claims speak of, stated without the operators of the code.     *)
(***************************************************************************)
FixedTypes == {Minute, Hour, Day}

\* the pager as constructed from args
FreshPager ==
    CandlePager_new(args.instrument, args.candle_type, args.from_date,
                    args.to_date, args.page_id, args.limit)

\* every call so far was move_candle_id
OnlyMoves == \A i \in 1..Len(log) : log[i].op = "move_candle_id"

\* the identifier that encodes a bucket start
IdOf(instrument, ct, bucket_start) ==
    ToString(ct) \o instrument \o ToString(bucket_start)

\* the length of the bucket of a fixed-duration resolution
FixedDuration(ct) ==
    CASE ct = Minute -> 60 [] ct = Hour -> 3600 [] ct = Day -> 86400

\* calendar months counted from year 0
MonthIndex(ts) == LET ym == year_month(ts) IN ym[1] * 12 + ym[2] - 1
MonthOfIndex(i) == with_ymd(i \div 12, (i % 12) + 1, 1)

\* the starts of the buckets that intersect [from, to), ascending
BucketsOf(ct, from, to) ==
    IF from >= to THEN <<>>
    ELSE IF ct = Month
    THEN [i \in 1..(MonthIndex(to - 1) - MonthIndex(from) + 1) |->
            MonthOfIndex(MonthIndex(from) + i - 1)]
    ELSE LET d     == FixedDuration(ct)
             first == (from \div d) * d
             last  == ((to - 1) \div d) * d
         IN  [i \in 1..((last - first) \div d + 1) |-> first + (i - 1) * d]

IdsOf(instrument, ct, starts) ==
    [i \in 1..Len(starts) |-> IdOf(instrument, ct, starts[i])]

(***************************************************************************)
(* Claims on the pager (PagerSpec)                                         *)
(***************************************************************************)

\* C1: fixed-duration resolution, no cursor, bucket-aligned from_date, limit L
\* and a range of at least L buckets: the k-th call of move_candle_id
\* (k <= L) returns the identifier of the bucket from_date + (k-1)*duration,
\* and call L+1 returns none.
C1_KthCallReturnsKthBucket ==
    ( /\ phase = "ready"
      /\ OnlyMoves
      /\ args.candle_type \in FixedTypes
      /\ args.page_id = None
      /\ args.from_date % FixedDuration(args.candle_type) = 0
      /\ args.to_date - args.from_date
            >= args.limit * FixedDuration(args.candle_type) )
    => \A k \in 1..Len(log) :
          log[k].ret =
             IF k <= args.limit
             THEN Some(IdOf(args.instrument, args.candle_type,
                            args.from_date
                              + (k - 1) * FixedDuration(args.candle_type)))
             ELSE None

\* C2: the sequence get_page_candle_ids returns on the pager as constructed
\* equals the sequence of identifiers move_candle_id returns, called on a
\* pager of the same initial state until it returns none.
C2_PageEqualsRepeatedMoves ==
    ( /\ phase = "ready"
      /\ OnlyMoves
      /\ Len(log) >= 1
      /\ log[Len(log)].ret = None
      /\ \A i \in 1..(Len(log) - 1) : log[i].ret # None
      /\ ~get_page_candle_ids(FreshPager).panic )
    => get_page_candle_ids(FreshPager).ret
          = [i \in 1..(Len(log) - 1) |-> log[i].ret[1]]

\* C3: Month resolution, no cursor, limit larger than the number of months
\* of the range: get_page_candle_ids returns one identifier per calendar
\* month that intersects [from_date, to_date), each once, ascending.
C3_OneIdPerMonth ==
    ( /\ phase = "ready"
      /\ log = <<>>
      /\ page # None
      /\ args.candle_type = Month
      /\ args.page_id = None
      /\ args.limit
            > Len(BucketsOf(Month, args.from_date, args.to_date)) )
    => page[1] = IdsOf(args.instrument, Month,
                       BucketsOf(Month, args.from_date, args.to_date))

\* C4: fixed-duration resolution, no cursor, limit larger than the number of
\* buckets of the range: get_page_candle_ids returns one identifier for
\* every bucket that intersects [from_date, to_date), aligned or not.
C4_OneIdPerBucket ==
    ( /\ phase = "ready"
      /\ log = <<>>
      /\ page # None
      /\ args.candle_type \in FixedTypes
      /\ args.page_id = None
      /\ args.limit
            > Len(BucketsOf(args.candle_type, args.from_date, args.to_date)) )
    => page[1] = IdsOf(args.instrument, args.candle_type,
                       BucketsOf(args.candle_type, args.from_date, args.to_date))

\* C5: get_next_page_id returns none whenever limit is greater than or equal
\* to get_dates_count(from_date, to_date), equality included.
C5_NoneWhenLimitCoversCount ==
    ( /\ phase = "ready"
      /\ token # None
      /\ pager[1].limit >= get_dates_count(pager[1].candle_type,
                                           pager[1].from_date,
                                           pager[1].to_date) )
    => token[1] = None

\* C6: on a pager without cursor whose range holds more buckets than limit,
\* get_next_page_id returns the same token on the fresh pager and after each
\* of the first limit calls of move_candle_id.
C6_TokenIndependentOfEmitted ==
    ( /\ phase = "ready"
      /\ OnlyMoves
      /\ token # None
      /\ args.page_id = None
      /\ Len(log) <= args.limit
      /\ get_dates_count(args.candle_type, args.from_date, args.to_date)
            > args.limit )
    => token[1] = get_next_page_id(FreshPager)

\* C7: CandlePager::new fails if and only if from_date > to_date, producing
\* no pager; otherwise it yields a pager holding exactly the arguments, the
\* bounds as given, with last_item_no = 0.
C7_NewFailsIffDescending ==
    /\ phase = "aborted" => (args.from_date > args.to_date /\ pager = None)
    /\ (phase # "idle" /\ args.from_date > args.to_date) => phase = "aborted"
    /\ (phase = "ready" /\ log = <<>>) =>
          pager = Some([instrument   |-> args.instrument,
                        candle_type  |-> args.candle_type,
                        from_date    |-> args.from_date,
                        to_date      |-> args.to_date,
                        page_id      |-> args.page_id,
                        limit        |-> args.limit,
                        last_item_no |-> 0])

\* C7 witness: construction was refused for a descending range
C7_Witness ==
    /\ phase = "aborted"
    /\ args.from_date > args.to_date

\* the length of the bucket that holds an instant at or after 1970-01-01
BucketLength(ct, t) ==
    IF ct = Month
    THEN MonthOfIndex(MonthIndex(t) + 1) - MonthOfIndex(MonthIndex(t))
    ELSE FixedDuration(ct)

\* the instant reached from t by n steps, each of the length of the bucket
\* that holds the instant reached so far
RECURSIVE Advanced(_, _, _)
Advanced(ct, t, n) ==
    IF n <= 0 THEN t ELSE Advanced(ct, t + BucketLength(ct, t), n - 1)

\* the start of the k-th bucket counted from the bucket that holds t
NthBucketFrom(ct, t, k) ==
    IF ct = Month
    THEN MonthOfIndex(MonthIndex(t) + k - 1)
    ELSE (t \div FixedDuration(ct)) * FixedDuration(ct) + (k - 1) * FixedDuration(ct)

\* C23: whenever get_next_page_id returns a token, the token is the
\* millisecond epoch of the instant reached from from_date by advancing
\* (limit - last_item_no + 1) buckets one at a time, each step adding the
\* duration of the bucket at the instant reached so far; for Month each
\* step adds the length of the month it leaves.
C23_TokenAdvancesBucketByBucket ==
    (phase = "ready" /\ token # None /\ token[1] # None) =>
        token[1][1] =
            timestamp_millis_string(
                Advanced(pager[1].candle_type, pager[1].from_date,
                         pager[1].limit - pager[1].last_item_no + 1))

\* the pager was constructed with a cursor that is an instant of the range
CursorInRange ==
    /\ args.page_id # None
    /\ parse_millis(args.page_id[1]) # None
    /\ args.from_date <= parse_millis(args.page_id[1])[1]
    /\ parse_millis(args.page_id[1])[1] < args.to_date

\* C24: on a pager constructed with a cursor T inside the range and
\* limit >= 2 the cursor is consumed once: the first move_candle_id returns
\* the identifier of the bucket of T, and each later call within the page
\* that returns an identifier returns that of the bucket following the one
\* returned before, not the bucket of T again.
C24_CursorConsumedOnce ==
    (phase = "ready" /\ OnlyMoves /\ CursorInRange /\ args.limit >= 2) =>
        LET T == parse_millis(args.page_id[1])[1]
        IN  /\ Len(log) >= 1 => log[1].ret # None
            /\ \A k \in 1..Len(log) :
                  (k <= args.limit /\ log[k].ret # None) =>
                      log[k].ret[1] = IdOf(args.instrument, args.candle_type,
                                           NthBucketFrom(args.candle_type, T, k))

\* the first limit calls were move_candle_id and each returned an
\* identifier, the next call was move_page_id and returned a token, and
\* every call after it was move_candle_id
PageEmittedThenMoved ==
    /\ args.limit >= 1
    /\ Len(log) > args.limit
    /\ \A k \in 1..args.limit :
          log[k].op = "move_candle_id" /\ log[k].ret # None
    /\ log[args.limit + 1].op = "move_page_id"
    /\ log[args.limit + 1].ret # None
    /\ \A k \in (args.limit + 2)..Len(log) : log[k].op = "move_candle_id"

\* C25: after a page was emitted completely on a range holding more buckets
\* than limit and move_page_id returned a token and moved from_date to it,
\* the further move_candle_id calls return the identifiers of the next
\* page: the j-th returns the identifier of the j-th bucket counted from
\* the bucket of the token, while j <= limit and that bucket starts before
\* to_date.
C25_NextPageAfterMovePageId ==
    (phase = "ready" /\ args.page_id = None /\ PageEmittedThenMoved
        /\ Len(BucketsOf(args.candle_type, args.from_date, args.to_date))
              > args.limit) =>
        LET T == parse_millis(log[args.limit + 1].ret[1])[1]
        IN  \A j \in 1..(Len(log) - args.limit - 1) :
                (j <= args.limit
                    /\ NthBucketFrom(args.candle_type, T, j) < args.to_date
                    /\ T < args.to_date) =>
                    log[args.limit + 1 + j].ret =
                        Some(IdOf(args.instrument, args.candle_type,
                                  NthBucketFrom(args.candle_type, T, j)))

\* C29: pages join without gap or overlap: on a fresh pager without cursor
\* whose range holds more buckets than limit, the bucket of the token of
\* get_next_page_id is the bucket immediately following the bucket of the
\* last identifier that get_page_candle_ids returns.
C29_PagesJoin ==
    (phase = "ready" /\ log = <<>> /\ args.page_id = None
        /\ token # None /\ token[1] # None
        /\ page # None /\ Len(page[1]) >= 1
        /\ Len(BucketsOf(args.candle_type, args.from_date, args.to_date))
              > args.limit) =>
        LET T    == parse_millis(token[1][1])[1]
            last == page[1][Len(page[1])]
        IN  \A j \in 1..Len(page[1]) :
                last = IdOf(args.instrument, args.candle_type,
                            NthBucketFrom(args.candle_type, args.from_date, j))
                  => NthBucketFrom(args.candle_type, T, 1)
                       = NthBucketFrom(args.candle_type, args.from_date, j + 1)

(***************************************************************************)
(* Claims on the aggregate (CacheSpec)                                     *)
(***************************************************************************)

\* C8: after prices p1..pn were applied in order to a fresh bucket, the
\* aggregate has open = p1, close = pn, high = max and low = min of them.
C8_OhlcOfPrices ==
    \A k \in DOMAIN cache.prices_by_date :
        /\ cache.prices_by_date[k].open = ticks[k].first
        /\ cache.prices_by_date[k].close = ticks[k].last
        /\ cache.prices_by_date[k].high = ticks[k].max
        /\ cache.prices_by_date[k].low = ticks[k].min

\* C9: every aggregate satisfies low <= open <= high and low <= close <= high.
C9_LowOpenCloseHigh ==
    \A k \in DOMAIN cache.prices_by_date :
        LET c == cache.prices_by_date[k]
        IN  /\ c.low <= c.open /\ c.open <= c.high
            /\ c.low <= c.close /\ c.close <= c.high

\* C10: the open of an aggregate is the price of the update that created the
\* bucket, and no later update of the bucket changes it.
C10_OpenNeverChanges ==
    [][ \A k \in DOMAIN cache'.prices_by_date :
           IF k \in DOMAIN cache.prices_by_date
           THEN cache'.prices_by_date[k].open = cache.prices_by_date[k].open
           ELSE cache'.prices_by_date[k].open = ticks'[k].first ]_vars

(***************************************************************************)
(* Claims on the range query of the resolution cache (CacheSpec)           *)
(***************************************************************************)
\* the i-th smallest element of a set of keys
KthKey(keys, i) == CHOOSE k \in keys : Cardinality({j \in keys : j < k}) = i - 1

\* the keys held that lie in [from, to)
KeysWithin(from, to) == {k \in DOMAIN cache.prices_by_date : from <= k /\ k < to}

\* C12: for from < to, get_by_date_range(from, to) returns exactly the entries
\* whose key k satisfies from <= k < to, in ascending key order: a bucket
\* starting at from is returned, a bucket starting at to is not.
C12_RangeHalfOpen ==
    (range # None /\ range[1].date_from < range[1].date_to) =>
        LET r    == range[1]
            keys == KeysWithin(r.date_from, r.date_to)
        IN  /\ ~r.panic
            /\ Len(r.ret) = Cardinality(keys)
            /\ \A i \in 1..Len(r.ret) :
                  r.ret[i] = cache.prices_by_date[KthKey(keys, i)]

\* C12 witness: a query from the start of one held bucket to the start of
\* another returned the first and not the second
C12_Witness ==
    /\ range # None
    /\ range[1].date_from < range[1].date_to
    /\ range[1].date_from \in DOMAIN cache.prices_by_date
    /\ range[1].date_to \in DOMAIN cache.prices_by_date
    /\ Len(range[1].ret) = 1
    /\ range[1].ret[1] = cache.prices_by_date[range[1].date_from]

\* C13: for every pair of instants from and to, to = from and to < from
\* included, and every cache content, get_by_date_range completes and
\* returns a sequence; it never fails.
C13_RangeNeverFails ==
    range # None => ~range[1].panic

(***************************************************************************)
(* Claims on the bid/ask cache (SidesSpec)                                 *)
(***************************************************************************)
\* the start of the bucket of an instant at or after 1970-01-01
BucketStart(ct, t) ==
    IF ct = Month
    THEN MonthOfIndex(MonthIndex(t))
    ELSE (t \div FixedDuration(ct)) * FixedDuration(ct)

\* C26: the datetime stored in an aggregate of the resolution cache is the
\* start of the bucket of the tick that created it, the key of its entry,
\* and no later update of the bucket changes it.
C26_DatetimeIsBucketStart ==
    \A k \in DOMAIN cache.prices_by_date :
        /\ k = BucketStart(cache.candle_type, k)
        /\ cache.prices_by_date[k].datetime = k

\* no update call is in progress
NoUpdateInFlight == \A w \in Writers : procs[w].pc = "idle"

\* the instants of the ticks applied for an instrument
AppliedDates(instrument) ==
    {applied[i].datetime :
        i \in {j \in 1..Len(applied) : applied[j].instrument = instrument}}

\* the bucket keys a side holds for an instrument at a resolution
KeysHeld(candles, instrument, ct) ==
    DOMAIN CandleTypesCache_of(candles[instrument], ct).prices_by_date

\* C11: after any sequence of update calls with instants t1..tn for one
\* instrument, on each side and for each of the four resolutions the set of
\* bucket keys held is { bucket start of ti }: every tick reaches all four
\* resolutions and ticks of one bucket share one entry.
C11_EveryTickReachesAllResolutions ==
    NoUpdateInFlight =>
        \A instrument \in Instruments :
            \A candles \in {bid_candles, ask_candles} :
                IF AppliedDates(instrument) = {}
                THEN instrument \notin DOMAIN candles
                ELSE /\ instrument \in DOMAIN candles
                     /\ \A ct \in CandleTypes :
                           KeysHeld(candles, instrument, ct)
                             = {BucketStart(ct, t) : t \in AppliedDates(instrument)}

\* C11 witness: two ticks 70 seconds apart across a minute boundary were
\* applied: two Minute buckets and one Hour, one Day, one Month bucket
C11_Witness ==
    /\ NoUpdateInFlight
    /\ AppliedDates("EURUSD") = {TickBase, TickBase + 70}
    /\ "EURUSD" \in DOMAIN bid_candles
    /\ Cardinality(KeysHeld(bid_candles, "EURUSD", Minute)) = 2
    /\ Cardinality(KeysHeld(bid_candles, "EURUSD", Hour)) = 1
    /\ Cardinality(KeysHeld(bid_candles, "EURUSD", Day)) = 1
    /\ Cardinality(KeysHeld(bid_candles, "EURUSD", Month)) = 1

\* the one update call in progress stands between its bid half and its ask
\* half, and no other update call was made
FirstUpdateBetweenSides(w) ==
    /\ applied = <<>>
    /\ \A v \in Writers \ {w} : procs[v].pc = "idle"
    /\ procs[w].pc \in {"write_wait", "write_held"}
    /\ ~procs[w].call[1].is_bid

\* C20: a tick update is not atomic across sides.  While the first update
\* stands between its two halves, a range query on the bid side returns the
\* bucket of the tick, closed at the bid of the tick, for every resolution,
\* and the same query on the ask side returns nothing.
C20_UpdateNotAtomicAcrossSides ==
    \A w \in Writers :
        FirstUpdateBetweenSides(w) =>
            \A ct \in CandleTypes :
                LET c == procs[w].call[1]
                    b == CandleBidAsksCache_get_by_date_range(
                             bid_candles, c.instrument, ct, QueryFrom, QueryTo)
                    a == CandleBidAsksCache_get_by_date_range(
                             ask_candles, c.instrument, ct, QueryFrom, QueryTo)
                IN  /\ Len(b.ret) = 1
                    /\ b.ret[1].close = c.bid
                    /\ a.ret = <<>>

\* C20 witness: with the update in progress, the reader's query on the bid
\* side returned the tick and its query on the ask side, for the same
\* instrument and resolution, returned nothing
C20_Witness ==
    \E w \in Writers :
        /\ FirstUpdateBetweenSides(w)
        /\ seen[TRUE] # None
        /\ seen[FALSE] # None
        /\ seen[TRUE][1].instrument = procs[w].call[1].instrument
        /\ seen[FALSE][1].instrument = seen[TRUE][1].instrument
        /\ seen[FALSE][1].candle_type = seen[TRUE][1].candle_type
        /\ Len(seen[TRUE][1].ret) = 1
        /\ seen[TRUE][1].ret[1].close = procs[w].call[1].bid
        /\ seen[FALSE][1].ret = <<>>

\* the rates applied to one side for the ticks of an instrument that fall
\* into the bucket with this start
RatesOfBucket(instrument, is_bid, ct, key) ==
    {IF is_bid THEN applied[i].bid ELSE applied[i].ask :
        i \in {j \in 1..Len(applied) :
                  /\ applied[j].instrument = instrument
                  /\ BucketStart(ct, applied[j].datetime) = key}}

\* C21: two update calls for an instrument not yet present, interleaved in
\* any way: once both have returned, each side holds one Instrument Cache of
\* the instrument, the bucket of each tick exists at every resolution, and
\* each bucket has high = max and low = min of the rates of its ticks and an
\* open and a close equal to one of them: no tick is lost and the cache the
\* first writer created is not replaced by the second.
C21_NoTickLostCreatingInstrument ==
    (NoUpdateInFlight /\ Len(applied) >= 2) =>
        \A instrument \in {applied[i].instrument : i \in 1..Len(applied)} :
            \A is_bid \in BOOLEAN :
                LET candles == IF is_bid THEN bid_candles ELSE ask_candles
                IN  /\ instrument \in DOMAIN candles
                    /\ candles[instrument].instrument_id = instrument
                    /\ \A ct \in CandleTypes :
                          /\ KeysHeld(candles, instrument, ct)
                               = {BucketStart(ct, t) : t \in AppliedDates(instrument)}
                          /\ \A key \in KeysHeld(candles, instrument, ct) :
                                LET c == CandleTypesCache_of(candles[instrument],
                                                             ct).prices_by_date[key]
                                    rates == RatesOfBucket(instrument, is_bid, ct, key)
                                IN  /\ c.high \in rates
                                    /\ c.low \in rates
                                    /\ \A r \in rates : c.low <= r /\ r <= c.high
                                    /\ c.close \in rates
                                    /\ c.open \in rates

\* C21 witness: two updates of one instant with different prices have both
\* returned, and the sides closed at different ticks: the bid side at the
\* tick whose call returned first, the ask side at the other, which only an
\* interleaving of the two calls produces
C21_Witness ==
    /\ NoUpdateInFlight
    /\ Len(applied) = 2
    /\ applied[1].instrument = applied[2].instrument
    /\ applied[1].datetime = applied[2].datetime
    /\ applied[1].bid # applied[2].bid
    /\ LET instrument == applied[1].instrument
           key == BucketStart(Minute, applied[1].datetime)
       IN  /\ instrument \in DOMAIN bid_candles
           /\ instrument \in DOMAIN ask_candles
           /\ bid_candles[instrument].minutes.prices_by_date[key].close
                 = applied[1].bid
           /\ ask_candles[instrument].minutes.prices_by_date[key].close
                 = applied[2].ask
           /\ bid_candles[instrument].minutes.prices_by_date[key].high
                 = Max(applied[1].bid, applied[2].bid)

\* the ticks applied for an instrument that fall into the bucket with this
\* start
TicksOfBucket(instrument, ct, key) ==
    {applied[i] : i \in {j \in 1..Len(applied) :
                            /\ applied[j].instrument = instrument
                            /\ BucketStart(ct, applied[j].datetime) = key}}

\* C32: the divergence between the sides is only transient: in every state
\* in which all issued update calls for an instrument have completed (none
\* in flight), for every bucket at every resolution the close on the bid side
\* and the close on the ask side come from the same tick, for every
\* interleaving of concurrent update calls.
C32_SidesCloseAtSameTick ==
    NoUpdateInFlight =>
        \A instrument \in DOMAIN bid_candles \cap DOMAIN ask_candles :
            \A ct \in CandleTypes :
                \A key \in KeysHeld(bid_candles, instrument, ct)
                              \cap KeysHeld(ask_candles, instrument, ct) :
                    \E tick \in TicksOfBucket(instrument, ct, key) :
                        /\ CandleTypesCache_of(bid_candles[instrument],
                                               ct).prices_by_date[key].close = tick.bid
                        /\ CandleTypesCache_of(ask_candles[instrument],
                                               ct).prices_by_date[key].close = tick.ask

(***************************************************************************)
(* Claims on the bid/ask cache with all four calls (BidAskSpec)            *)
(***************************************************************************)
\* the range queries asked before and after init: every instrument,
\* resolution and pair of bounds
SeedQueries ==
    {[instrument |-> i, candle_type |-> ct, date_from |-> d[1], date_to |-> d[2]] :
        i \in SeedInstruments, ct \in CandleTypes, d \in SeedRanges}

\* what get_by_date_range returns, or that it panics, on the map of a side
Answer(candles, q) ==
    CandleBidAsksCache_get_by_date_range(candles, q.instrument, q.candle_type,
                                         q.date_from, q.date_to)

\* the entries a side holds for an instrument at a resolution, none when the
\* instrument is not held
EntriesHeld(candles, instrument, ct) ==
    IF instrument \in DOMAIN candles
    THEN CandleTypesCache_of(candles[instrument], ct).prices_by_date
    ELSE EmptyMap

Busy(p) == procs[p].pc \notin {"idle", "panicked"}

\* the side whose lock the task awaits
AwaitedSide(p) ==
    CASE procs[p].pc \in {"write_wait", "init_wait", "read_wait"} ->
             procs[p].call[1].is_bid
      [] procs[p].pc = "clear_bids_wait" -> TRUE
      [] procs[p].pc = "clear_asks_wait" -> FALSE

\* the task can take its next step: it runs a body, or the lock it awaits
\* can be granted
Runnable(p) ==
    \/ procs[p].pc \in {"write_held", "init_held", "read_held",
                         "clear_bids_held", "clear_asks_held"}
    \/ /\ procs[p].pc = "read_wait"
       /\ locks[AwaitedSide(p)].writer = None
    \/ /\ procs[p].pc \in {"write_wait", "init_wait", "clear_bids_wait",
                            "clear_asks_wait"}
       /\ locks[AwaitedSide(p)].writer = None
       /\ locks[AwaitedSide(p)].readers = {}

\* C27: with concurrent update, init, get_by_date_range and clear calls and
\* fair scheduling every call completes: whenever a task is inside a call
\* some task can take a step (no deadlock), and every task inside a call
\* eventually is outside of it (no lock is awaited for ever).
C27_EveryCallCompletes ==
    /\ []((\E p \in Procs : Busy(p)) => (\E q \in Procs : Runnable(q)))
    /\ \A p \in Procs : Busy(p) ~> ~Busy(p)

\* C27 witness: clear holds the write lock of the bids and awaits the write
\* lock of the asks, while another call awaits the write lock of the bids
C27_Witness ==
    \E p, q \in Procs :
        /\ procs[q].pc = "clear_asks_wait"
        /\ locks[TRUE].writer = Some(q)
        /\ procs[p].pc \in {"write_wait", "init_wait", "clear_bids_wait"}
        /\ AwaitedSide(p)
        /\ ~Runnable(p)

(***************************************************************************)
(* Claims on the flat cache (FlatSpec)                                     *)
(***************************************************************************)
\* the cache was configured with Minute, Hour, Day, Month in that order
FullConfig == flat # None /\ flat[1].candle_types = AllTypes

\* the last call recorded is a call of this operation
LastCallIs(op) == flatOut.last # None /\ flatOut.last[1].op = op

\* C14: configured with Minute, Hour, Day, Month: after remove_before(cutoff)
\* no record whose bucket start is <= cutoff remains, every record whose
\* bucket start is > cutoff is still retrievable by get with unchanged
\* content, and the count returned is the number of records removed.
C14_RemoveBeforeEvictsThroughCutoff ==
    (FullConfig /\ LastCallIs("remove_before")) =>
        LET o      == flatOut.last[1]
            before == o.before.candles_by_ids
            after  == flat[1].candles_by_ids
        IN  /\ ~o.panic
            /\ DOMAIN after \subseteq DOMAIN before
            /\ \A id \in DOMAIN after : after[id].datetime > o.datetime
            /\ \A id \in DOMAIN before :
                  before[id].datetime > o.datetime =>
                      CandlesCache_get(flat[1], id) = Some(before[id])
            /\ o.ret = Cardinality(DOMAIN before) - Cardinality(DOMAIN after)

\* C14 witness: quotes 100 seconds apart filled three Minute buckets and one
\* Hour, Day and Month bucket; remove_before at the middle quote removed
\* five records and only the last Minute bucket remains
C14_Witness ==
    /\ FullConfig
    /\ LastCallIs("remove_before")
    /\ flatOut.last[1].datetime = TickBase
    /\ Cardinality(DOMAIN flatOut.last[1].before.candles_by_ids) = 6
    /\ flatOut.last[1].ret = 5
    /\ DOMAIN flat[1].candles_by_ids
          = {IdOf("EURUSD", Minute, BucketStart(Minute, TickBase + 100))}

\* C15: for any list of resolutions and in any state, the empty cache
\* included, remove_before(cutoff) completes and returns a count, which is 0
\* when no record matches; it never fails.
C15_RemoveBeforeNeverFails ==
    LastCallIs("remove_before") =>
        LET o == flatOut.last[1]
        IN  /\ ~o.panic
            /\ (\A id \in DOMAIN o.before.candles_by_ids :
                    o.before.candles_by_ids[id].datetime > o.datetime) => o.ret = 0

C17_StartDateIdempotent ==
    tcall[1].op = "get_start_date" => tcall[1].again = tcall[1].ret

\* C17 witness: get_start_date moved an instant before 1970 and an instant
\* inside a month to another instant
C17_Witness ==
    /\ tcall[1].op = "get_start_date"
    /\ tcall[1].ret # tcall[1].datetime_from
    /\ tcall[1].candle_type = Month \/ tcall[1].datetime_from < 0

\* the number of days of a calendar month
DaysInMonth(year, month) ==
    CASE month \in {1, 3, 5, 7, 8, 10, 12} -> 31
      [] month \in {4, 6, 9, 11} -> 30
      [] OTHER ->
           IF year % 4 = 0 /\ (year % 100 # 0 \/ year % 400 = 0) THEN 29 ELSE 28

\* C18: for every instant t, get_duration(Month, t) is the span from the
\* first day of t's calendar month to the first day of the following month,
\* (days in that month) * 86400 seconds and positive; in December 31 days.
C18_MonthDuration ==
    (tcall[1].op = "get_duration" /\ tcall[1].candle_type = Month) =>
        LET date == year_month(tcall[1].datetime_from)
        IN  /\ tcall[1].ret = DaysInMonth(date[1], date[2]) * 86400
            /\ tcall[1].ret > 0

\* the starts of the buckets from the bucket of from to the bucket of to
StartsBetween(ct, from, to) ==
    LET starts == BucketsOf(ct, from, to + 1)
    IN  {starts[i] : i \in 1..Len(starts)}

\* C19: for every resolution and from <= to, get_start_dates(from, to) is
\* exactly the set of the starts of the buckets from the bucket of from to
\* the bucket of to: it holds get_start_date(from) and get_start_date(to),
\* get_dates_count(from, to) + 1 elements for Minute, Hour and Day, and one
\* element per calendar month for Month.  The set only grows, so that it
\* holds no other instant while it is built either.
C19_StartDatesCoverRange ==
    (tcall[1].op = "get_start_dates"
        /\ tcall[1].datetime_from <= tcall[1].datetime_to) =>
        LET c      == tcall[1]
            starts == StartsBetween(c.candle_type, c.datetime_from, c.datetime_to)
        IN  /\ c.dates \subseteq starts
            /\ c.pc = "done" =>
                  /\ c.dates = starts
                  /\ get_start_date(c.candle_type, c.datetime_from) \in c.dates
                  /\ get_start_date(c.candle_type, c.datetime_to) \in c.dates
                  /\ Cardinality(c.dates) =
                        IF c.candle_type = Month
                        THEN MonthIndex(c.datetime_to) - MonthIndex(c.datetime_from) + 1
                        ELSE get_dates_count(c.candle_type, c.datetime_from,
                                             c.datetime_to) + 1


\* C28: for every resolution r and every instant t, instants before 1970 and
\* instants in December included, t lies inside its own bucket:
\* get_start_date(r, t) <= t < get_end_date(r, t), where get_end_date(r, t) is
\* get_start_date(r, t) + get_duration(r, get_start_date(r, t)).
C28_InstantInsideItsBucket ==
    tcall[1].op = "get_end_date" =>
        LET c     == tcall[1]
            start == get_start_date(c.candle_type, c.datetime_from)
        IN  /\ c.again = start
            /\ start <= c.datetime_from
            /\ c.datetime_from < c.ret
            /\ c.ret = start + get_duration(c.candle_type, start)


\* the records of a result of get_sorted_after
SortedRecords(candles) == {candles[k] : k \in DOMAIN candles}

\* C30: for every state of the flat cache and every cutoff,
\* get_sorted_after(cutoff) contains exactly the same records as
\* get_after(cutoff), only ordered by bucket start: no record that get_after
\* returns is missing from the sorted result, also when records of different
\* instruments or resolutions share a bucket start.
C30_SortedAfterHoldsWhatGetAfterReturns ==
    LastCallIs("get_sorted_after") =>
        LET o     == flatOut.last[1]
            after == CandlesCache_get_after(flat[1], o.datetime)
        IN  /\ o.panic = after.panic
            /\ (o.ret = None) <=> (after.ret = None)
            /\ o.ret # None => SortedRecords(o.ret[1]) = after.ret[1]


(***************************************************************************)
(* Claims on the identifiers of the flat cache (IdSpec)                    *)
(***************************************************************************)
\* the buckets whose candles a flat cache holds
BucketsHeld(cache_) ==
    {<<cache_.candles_by_ids[id].candle_type,
       cache_.candles_by_ids[id].instrument,
       cache_.candles_by_ids[id].datetime>> : id \in DOMAIN cache_.candles_by_ids}

\* C31: generate_id is injective on buckets: two triples (resolution,
\* instrument, bucket start) that differ in any component never produce the
\* same identifier, for arbitrary instrument strings (names ending in digits
\* included), so that create_or_update and insert never store two different
\* candles under one key of the flat cache: the buckets the cache held before
\* a call and the buckets of the call have different identifiers, and after
\* the call the cache holds a candle of each of them.
C31_GenerateIdInjective ==
    (LastCallIs("create_or_update") \/ LastCallIs("insert")) =>
        LET given == BucketsHeld(flatOut.last[1].before) \cup flatOut.last[1].ret
        IN  /\ \A a, b \in given :
                  a # b => generate_id(a[2], a[1], a[3]) # generate_id(b[2], b[1], b[3])
            /\ given \subseteq BucketsHeld(flat[1])


(***************************************************************************)
(* Claims on the loop of get_start_dates (FairTypeSpec)                    *)
(***************************************************************************)
\* an iteration of the loop of get_start_dates that is not its last test
LoopIteration == GetStartDatesLoop /\ tcall'[1].pc = "loop"

\* C33: get_start_dates(from, to) terminates for every resolution and every
\* pair of instants from <= to, Month ranges that reach or cross December
\* into a later year included: its loop variable last_date strictly
\* increases on every iteration until it reaches get_start_date(to).
C33_StartDatesTerminates ==
    /\ [][LoopIteration =>
            /\ tcall'[1].last_date > tcall[1].last_date
            /\ tcall'[1].last_date <= tcall[1].date_to]_vars
    /\ (tcall[1].op = "get_start_dates" /\ tcall[1].datetime_from <= tcall[1].datetime_to)
          ~> (tcall[1].pc = "done" /\ tcall[1].last_date = tcall[1].date_to)

====
